---- MODULE Spec2Model ----
(***************************************************************************)
(* Sequential chained transfer engine of cbtc-lib.                         *)
(*                                                                         *)
(* The module models submit_sequential_chained (src/src/transfer.rs), the  *)
(* credential state it refreshes (TokenState), the response extractor      *)
(* (parse_transfer_response) and the external collaborators it talks to:   *)
(* the registry, the identity provider and the ledger.  Every await of the *)
(* code is a separate step: the request is sent by one action and the      *)
(* reply is received by the next.                                          *)
(***************************************************************************)
EXTENDS Integers, Sequences, FiniteSets, TLC

\* ------------------------------------------------------------------ bounds

\* longest recipient list given to one call
MaxRecipients == 3
\* largest number of holdings the caller passes in
MaxInitHoldings == 2
\* largest number of change holdings one accepted transfer returns
MaxChange == 1
\* number of times the clock may jump past the token deadline during a batch
MaxTicks == 1

\* ------------------------------------------------------- program constants

\* "expires_in as u64 - 60": the margin taken off the token lifetime
SafetyMarginSecs == 60
\* "(token.expires_in - 20)" of TokenState::new
NewMarginSecs == 20
\* a token lifetime the identity provider hands out (seconds): above the margin
ExpiresInLong == 120
\* the value serde gives expires_in when the field is absent
ExpiresInAbsent == 0
\* the span a u32 difference wraps by.  It is 2^32 in the program; the model
\* checker's integers end at 2^31 - 1, so the span is cut to 2^30, which is
\* still longer than any time the clock of the model covers: the program only
\* ever compares the resulting deadline with the clock
U32Range == 1073741824

\* ----------------------------------------------------------------- options

None == [some |-> FALSE]
Some(x) == [some |-> TRUE, v |-> x]

\* a Rust String built by format!: the sequence of its pieces
Contains(e, piece) == \E i \in 1..Len(e) : e[i] = piece

RECURSIVE SeqToSet(_)
SeqToSet(s) == IF s = <<>> THEN {} ELSE {Head(s)} \cup SeqToSet(Tail(s))

RECURSIVE FilterMapStr(_)
\* change_array.iter().filter_map(|v| v.as_str().map(..)).collect()
FilterMapStr(arr) ==
    IF arr = <<>> THEN <<>>
    ELSE IF Head(arr).k = "str"
         THEN <<Head(arr).v>> \o FilterMapStr(Tail(arr))
         ELSE FilterMapStr(Tail(arr))

\* ------------------------------------------------------- JSON of a response

\* a JSON value: a string (holding a contract id or update id) or a number
JStr(x) == [k |-> "str", v |-> x]
JNum(x) == [k |-> "num", v |-> x]
JIsStr(o) == o.some /\ o.v.k = "str"

\* one entry of transactionTree.eventsById
ExercisedEvent(choice, change, cid) ==
    [kind |-> "ExercisedTreeEvent", choice |-> choice,
     senderChangeCids |-> change, transferInstructionCid |-> cid]
CreatedEvent ==
    [kind |-> "CreatedTreeEvent", choice |-> "",
     senderChangeCids |-> None, transferInstructionCid |-> None]

\* the body of a 2xx answer of the ledger
Body(json, updateId, events) ==
    [json |-> json, updateId |-> updateId, eventsById |-> events]

TransferChoice == "TransferFactory_Transfer"

RECURSIVE ScanEvents(_, _)
\* the loop over events_by_id: acc = <<sender_change_cids, transfer_offer_cid>>
ScanEvents(events, acc) ==
    IF events = <<>> THEN acc
    ELSE LET ev == Head(events)
             hit == ev.kind = "ExercisedTreeEvent" /\ ev.choice = TransferChoice
             change == IF hit /\ ev.senderChangeCids.some
                       THEN Some(FilterMapStr(ev.senderChangeCids.v))
                       ELSE acc[1]
             offer == IF hit /\ JIsStr(ev.transferInstructionCid)
                      THEN Some(ev.transferInstructionCid.v.v)
                      ELSE acc[2]
         IN  ScanEvents(Tail(events), <<change, offer>>)

ParseErr(msg) == [ok |-> FALSE, err |-> msg]
ParseOk(change, offer, upd) ==
    [ok |-> TRUE, sender_change_cids |-> change,
     transfer_offer_cid |-> offer, update_id |-> upd]

parse_transfer_response(response_raw) ==
    IF ~response_raw.json
    THEN ParseErr(<<"Failed to parse response JSON: ", "invalid">>)
    ELSE IF ~JIsStr(response_raw.updateId)
    THEN ParseErr(<<"Failed to find updateId in response">>)
    ELSE IF ~response_raw.eventsById.some
    THEN ParseErr(<<"Failed to find eventsById in response">>)
    ELSE LET acc == ScanEvents(response_raw.eventsById.v, <<None, None>>)
         IN  IF ~acc[1].some
             THEN ParseErr(<<"Failed to find senderChangeCids in response">>)
             ELSE IF ~acc[2].some
             THEN ParseErr(<<"Failed to find transferInstructionCid in response">>)
             ELSE ParseOk(acc[1].v, acc[2].v, response_raw.updateId.v.v)

\* ------------------------------------------------------- credential state

\* keycloak::login::Response as the identity provider returns it
AuthResponse(token, expires_in) ==
    [access_token |-> token, refresh_token |-> token, expires_in |-> expires_in]

\* "(token.expires_in - 20) as u64": the difference is taken in u32.  Below zero
\* a debug build panics (no TokenState comes to exist) and a release build
\* wraps it to 2^32 - (20 - expires_in) seconds, some 136 years
U32Sub(a, b) == IF a >= b THEN a - b ELSE a - b + U32Range

\* the struct literal of TokenState::new: expires_at = now - (expires_in - 20)
TokenStateNew(auth, t) ==
    [access_token |-> auth.access_token,
     refresh_token |-> auth.refresh_token,
     expires_at |-> t - U32Sub(auth.expires_in, NewMarginSecs)]

\* mutant of NeedsRefresh: the token is refreshed only once the deadline is past
NeedsRefreshStrictlyPast(ts, t) == t > ts.expires_at

\* "let needs_refresh = now >= self.expires_at"
NeedsRefresh(ts, t) == t >= ts.expires_at

\* "auth.expires_in as u64 - 60" underflows: the subtraction panics in a debug
\* build and wraps in a release build, where SystemTime + Duration then panics
ExpiryUnderflows(auth) == auth.expires_in < SafetyMarginSecs

\* the three assignments after a successful refresh or fallback login
StoreAuth(ts, auth, t) ==
    [access_token |-> auth.access_token,
     refresh_token |-> auth.refresh_token,
     expires_at |-> t + (auth.expires_in - SafetyMarginSecs)]

\* mutant of RefreshRejected: no refresh error is taken for a refused token
RefreshRejectedNever(e) == FALSE

\* "if e.contains("Token is not active")"
RefreshRejected(e) == Contains(e, "Token is not active")

\* "return Err(format!("Failed to refresh JWT: {}", e))"
RefreshError(e) == <<"Failed to refresh JWT: ">> \o e

\* ------------------------------------------------------------------ inputs

\* party ids, references and reference bases are Strings that may get encoded:
\* they are kept as sequences of characters
Sender == <<"s">>
Alice == <<"a">>
Bob == <<"b">>

Recipient(receiver, amount, reference) ==
    [receiver |-> receiver, amount |-> amount, reference |-> reference]

\* three recipients that differ in receiver or amount; the second brings its
\* own reference, the third names the first one's receiver again
RecipientPattern ==
    <<Recipient(Alice, "1.0", None),
      Recipient(Bob, "2.0", Some(<<"o", "w", "n">>)),
      Recipient(Alice, "0.5", None)>>

\* the list of n recipients that starts at position `from` of the pattern
RecipientList(from, n) ==
    [k \in 1..n |-> RecipientPattern[((from + k - 2) % Len(RecipientPattern)) + 1]]

\* the batch-wide reference base that goes with a recipient list: the lists that
\* start at the first recipient run without one, the others with "r-1"
ReferenceBaseFor(from) == IF from = 1 THEN None ELSE Some(<<"r", "-", "1">>)

\* <<recipients, reference_base>> of a call
Batches ==
    {<<RecipientList(from, n), ReferenceBaseFor(from)>> :
        from \in 1..2, n \in 0..MaxRecipients}

\* the caller's holdings: none, or the contract ids 1..MaxInitHoldings
HoldingLists == {<<>>, [k \in 1..MaxInitHoldings |-> k]}

\* common::transfer_factory::Response
RegistryResponse(tag) ==
    [factory_id |-> <<"factory", tag>>,
     choice_context |->
        [choice_context_data |-> <<"context", tag>>,
         disclosed_contracts |-> <<"disclosed", tag>>]]

SuppliedContext == RegistryResponse("supplied")
FetchedContext == RegistryResponse("fetched")

ParamsSet ==
    {[recipients |-> b[1],
      initial_holding_cids |-> h,
      reference_base |-> b[2],
      on_transfer_complete |-> cb,
      registry_response |-> rr] :
        b \in Batches, h \in HoldingLists, cb \in BOOLEAN,
        rr \in {None, Some(SuppliedContext)}}

\* ------------------------------------------------------------------- state

VARIABLES
    params,                 \* SequentialChainedParams of the call
    token_state,            \* the caller's TokenState (&mut)
    now,                    \* the system clock, in seconds
    ticks,                  \* clock jumps taken so far
    pc,                     \* where the call stands
    ret,                    \* the value the call returned
    additional_information, \* the registry context in use
    idx,                    \* index of the recipient being processed
    current_holding_cids,   \* the holding pool (params.initial_holding_cids at first)
    results,
    successful_count,
    failed_count,
    pending,                \* the result handed to the callback, not yet pushed
    observed,               \* what the callback has been called with, in order
    callbacks_completed,    \* callback invocations that have returned
    registry_fetches,       \* requests sent to the registry
    idp_round_trips,        \* requests sent to the identity provider
    idp_issued,             \* tokens the identity provider has issued
    calls,                  \* the get_fresh_token calls a caller made directly
    iterations,             \* the loop iterations begun, in order
    submissions,            \* requests sent to the ledger, in order
    in_flight,              \* ledger requests not yet answered
    consumed,               \* holdings the ledger has archived
    next_cid                \* next contract id the ledger creates

loopVars == <<idx, current_holding_cids, results, successful_count, failed_count>>
tokenVars == <<token_state, idp_issued, calls>>
clockVars == <<now, ticks>>
ledgerVars == <<submissions, in_flight, consumed, next_cid>>
callbackVars == <<pending, observed, callbacks_completed>>

vars == <<params, token_state, now, ticks, pc, ret, additional_information, idx,
          current_holding_cids, results, successful_count, failed_count,
          pending, observed, callbacks_completed, registry_fetches,
          idp_round_trips, idp_issued, calls, iterations, submissions,
          in_flight, consumed, next_cid>>

Ok(x) == [ok |-> TRUE, v |-> x]
Err(e) == [ok |-> FALSE, err |-> e]

\* a TokenState as a caller can hold it: fresh from TokenState::new, or after
\* one successful get_fresh_token (as distribute::submit leaves it)
InitialTokenStates ==
    {TokenStateNew(AuthResponse(0, ExpiresInLong), 0),
     StoreAuth(TokenStateNew(AuthResponse(0, ExpiresInLong), 0),
               AuthResponse(0, ExpiresInLong), 0)}

Init ==
    /\ params \in ParamsSet
    /\ token_state \in InitialTokenStates
    /\ now = 0
    /\ ticks = 0
    /\ pc = "start"
    /\ ret = None
    /\ additional_information = None
    /\ idx = 0
    /\ current_holding_cids = params.initial_holding_cids
    /\ results = <<>>
    /\ successful_count = 0
    /\ failed_count = 0
    /\ pending = None
    /\ observed = <<>>
    /\ callbacks_completed = 0
    /\ registry_fetches = 0
    /\ idp_round_trips = 0
    /\ idp_issued = 0
    /\ calls = <<>>
    /\ iterations = <<>>
    /\ submissions = <<>>
    /\ in_flight = <<>>
    /\ consumed = {}
    /\ next_cid = MaxInitHoldings + 1

\* -------------------------------------------------------- result records

\* mutant of RecipientAt: the iteration reads the first recipient every time
RecipientAtFirst(i) == params.recipients[1]

\* the recipient taken by the iteration with index i (0-based, as enumerate())
RecipientAt(i) == params.recipients[i + 1]

TransferResult(success, i, recipient, offer, upd, reference, raw, error) ==
    [success |-> success, transfer_index |-> i,
     receiver |-> recipient.receiver, amount |-> recipient.amount,
     transfer_offer_cid |-> offer, update_id |-> upd, reference |-> reference,
     raw_response |-> raw, error |-> error]

NoUtxosMsg == <<"No UTXOs available for transfer">>
NoRecipientsMsg == <<"No recipients to process">>
RegistryFailedMsg == <<"Transfer factory request failed">>

\* lines 353-365
EmptyPoolResult(i, recipient) ==
    TransferResult(FALSE, i, recipient, None, None, None, None, Some(NoUtxosMsg))

\* lines 381-394
TokenFailureResult(i, recipient, e) ==
    TransferResult(FALSE, i, recipient, None, None, None, None,
                   Some(<<"Failed to get fresh token: ">> \o e))

\* lines 496-506
SuccessResult(i, recipient, reference, raw, parsed) ==
    TransferResult(TRUE, i, recipient, Some(parsed.transfer_offer_cid),
                   Some(parsed.update_id), reference, Some(raw), None)

\* lines 520-535
ParseFailureResult(i, recipient, reference, raw, e) ==
    TransferResult(FALSE, i, recipient, None, None, reference, Some(raw),
                   Some(<<"Failed to parse transfer response: ">> \o e))

\* mutant of LedgerFailureResult: the failure result carries a response
LedgerFailureResultWithResponse(i, recipient, reference, e) ==
    TransferResult(FALSE, i, recipient, None, None, reference, Some(e),
                   Some(<<"Ledger submission failed: ">> \o e))

\* lines 549-564
LedgerFailureResult(i, recipient, reference, e) ==
    TransferResult(FALSE, i, recipient, None, None, reference, None,
                   Some(<<"Ledger submission failed: ">> \o e))

\* mutant of PoolAfterFailure: a failure arm clears the pool
PoolAfterFailureCleared(pool) == <<>>

\* "current_holding_cids = sender_change_cids" of the success arm
PoolAfterSuccess(pool, sender_change_cids) == sender_change_cids
\* the failure arms keep current_holding_cids
PoolAfterFailure(pool) == pool

\* the pool an iteration leaves, given the change it extracted (if any)
PoolAfter(pool, change) ==
    IF change.some THEN PoolAfterSuccess(pool, change.v) ELSE PoolAfterFailure(pool)

\* mutant of FailedAfter: the parse-failure arm forgets "failed_count += 1"
FailedAfterParseArmMissed(n, result) ==
    IF result.success \/ result.raw_response.some THEN n ELSE n + 1

\* "successful_count += 1" / "failed_count += 1"
SuccessfulAfter(n, result) == IF result.success THEN n + 1 ELSE n
FailedAfter(n, result) == IF result.success THEN n ELSE n + 1

\* results.push(result), the counter, the pool, and on to the next recipient
Push(result, change) ==
    /\ results' = Append(results, result)
    /\ successful_count' = SuccessfulAfter(successful_count, result)
    /\ failed_count' = FailedAfter(failed_count, result)
    /\ current_holding_cids' = PoolAfter(current_holding_cids, change)
    /\ idx' = idx + 1
    /\ pc' = "loop"

\* "if let Some(ref callback) = params.on_transfer_complete"
CallbackSupplied(p) == p.on_transfer_complete

\* mutant of Complete: the callback is called for successful transfers only
CompleteCallbackOnSuccessOnly(result, change) ==
    IF CallbackSupplied(params) /\ result.success
    THEN /\ pending' = Some([result |-> result, change |-> change])
         /\ observed' = Append(observed, result)
         /\ pc' = "callback"
         /\ UNCHANGED <<loopVars, callbacks_completed>>
    ELSE /\ Push(result, change)
         /\ UNCHANGED callbackVars

\* the end of every arm of the loop body: the callback is awaited first, the
\* result is pushed after it has returned
Complete(result, change) ==
    IF CallbackSupplied(params)
    THEN /\ pending' = Some([result |-> result, change |-> change])
         /\ observed' = Append(observed, result)
         /\ pc' = "callback"
         /\ UNCHANGED <<loopVars, callbacks_completed>>
    ELSE /\ Push(result, change)
         /\ UNCHANGED callbackVars

\* ------------------------------------------------------ building a transfer

\* the bytes of a string (as_bytes) for the characters the model uses
Bytes(str) ==
    [k \in 1..Len(str) |->
        CASE str[k] = "-" -> 45
          [] str[k] = "1" -> 49
          [] str[k] = "a" -> 97
          [] str[k] = "b" -> 98
          [] str[k] = "r" -> 114
          [] str[k] = "s" -> 115]

\* the alphabet of base64::engine::general_purpose::STANDARD
Base64Alphabet ==
    <<"A", "B", "C", "D", "E", "F", "G", "H", "I", "J", "K", "L", "M", "N", "O", "P",
      "Q", "R", "S", "T", "U", "V", "W", "X", "Y", "Z", "a", "b", "c", "d", "e", "f",
      "g", "h", "i", "j", "k", "l", "m", "n", "o", "p", "q", "r", "s", "t", "u", "v",
      "w", "x", "y", "z", "0", "1", "2", "3", "4", "5", "6", "7", "8", "9", "+", "/">>

RECURSIVE Base64Encode(_)
\* STANDARD.encode: three bytes give four characters, the rest is padded with =
Base64Encode(b) ==
    LET ch(i) == Base64Alphabet[i + 1]
    IN  IF Len(b) = 0 THEN <<>>
        ELSE IF Len(b) = 1
        THEN <<ch(b[1] \div 4), ch((b[1] % 4) * 16), "=", "=">>
        ELSE IF Len(b) = 2
        THEN <<ch(b[1] \div 4), ch((b[1] % 4) * 16 + b[2] \div 16),
               ch((b[2] % 16) * 4), "=">>
        ELSE <<ch(b[1] \div 4), ch((b[1] % 4) * 16 + b[2] \div 16),
               ch((b[2] % 16) * 4 + b[3] \div 64), ch(b[3] % 64)>>
             \o Base64Encode(SubSeq(b, 4, Len(b)))

\* base64 of format!("{}-{}-{}", reference_base, sender, receiver)
generate_unique_reference(reference_base, sender, receiver) ==
    Base64Encode(Bytes(reference_base \o <<"-">> \o sender \o <<"-">> \o receiver))

\* mutant of TransferReference: the generated reference wins over the
\* recipient's own
TransferReferenceBaseWins(p, recipient) ==
    IF p.reference_base.some
    THEN Some(generate_unique_reference(p.reference_base.v, Sender,
                                        recipient.receiver))
    ELSE recipient.reference

\* lines 408-413: the generated reference, overridden by the recipient's own
TransferReference(p, recipient) ==
    LET generated ==
            IF p.reference_base.some
            THEN Some(generate_unique_reference(p.reference_base.v, Sender,
                                                recipient.receiver))
            ELSE None
    IN  IF recipient.reference.some THEN Some(recipient.reference.v) ELSE generated

\* lines 416-443: common::transfer::Transfer for one recipient
Transfer(recipient, pool, reference) ==
    [sender |-> Sender, receiver |-> recipient.receiver,
     amount |-> recipient.amount, input_holding_cids |-> Some(pool),
     meta_reference |-> reference]

\* mutant of Submission: the context is taken per transfer, as transfer::submit
\* does, instead of the one fetched for the batch
SubmissionOwnContext(ctx, transfer, token) ==
    LET own == RegistryResponse(transfer.receiver)
    IN  [contract_id |-> own.factory_id,
         choice |-> TransferChoice,
         context |-> own.choice_context.choice_context_data,
         disclosed_contracts |-> own.choice_context.disclosed_contracts,
         transfer |-> transfer,
         access_token |-> token]

\* lines 446-482: the exercise command and the submission around it
Submission(ctx, transfer, token) ==
    [contract_id |-> ctx.factory_id,
     choice |-> TransferChoice,
     context |-> ctx.choice_context.choice_context_data,
     disclosed_contracts |-> ctx.choice_context.disclosed_contracts,
     transfer |-> transfer,
     access_token |-> token]

\* mutant of InputHoldings: every transfer is built on the initial holdings
InputHoldingsInitial(pool) == params.initial_holding_cids

\* the pool handed to the transfer of the current iteration
InputHoldings(pool) == pool

\* the request of the current iteration, sent with `token`
CurrentRequest(token) ==
    Submission(additional_information.v,
               Transfer(RecipientAt(idx), InputHoldings(current_holding_cids),
                        TransferReference(params, RecipientAt(idx))),
               token)

\* ledger::submit::wait_for_transaction_tree is called: the request leaves
SendToLedger(token) ==
    LET req == CurrentRequest(token)
        entry == [request |-> req, transfer_index |-> idx,
                  results_len |-> Len(results),
                  callbacks_done |-> callbacks_completed,
                  stale |-> SeqToSet(req.transfer.input_holding_cids.v) \cap consumed,
                  others_in_flight |-> Len(in_flight)]
    IN  /\ submissions' = Append(submissions, entry)
        /\ in_flight' = Append(in_flight, req)
        /\ pc' = "submit"
        /\ UNCHANGED <<consumed, next_cid>>

\* an iteration of the loop starts on the current pool; cred tells what became
\* of its get_fresh_token call: "none" (not called), "pending", "ok" or "err"
IterationBegun(cred, needs_refresh) ==
    iterations' = Append(iterations,
        [transfer_index |-> idx, pool |-> current_holding_cids,
         callbacks_done |-> callbacks_completed,
         needs_refresh |-> needs_refresh, cred |-> cred])

\* the get_fresh_token call of the current iteration is over
CredCheckDone(cred) ==
    iterations' = [iterations EXCEPT ![Len(iterations)].cred = cred]

\* ----------------------------------------------------------- the beginning

\* lines 262-264
ReturnNoRecipients ==
    /\ pc = "start"
    /\ params.recipients = <<>>
    /\ pc' = "returned"
    /\ ret' = Some(Err(NoRecipientsMsg))
    /\ UNCHANGED <<params, tokenVars, clockVars, additional_information, loopVars,
                   callbackVars, registry_fetches, idp_round_trips, iterations,
                   ledgerVars>>

\* lines 272-273 and 334-337: the caller's registry response is used
UseSuppliedContext ==
    /\ pc = "start"
    /\ params.recipients # <<>>
    /\ params.registry_response.some
    /\ additional_information' = Some(params.registry_response.v)
    /\ pc' = "loop"
    /\ UNCHANGED <<params, tokenVars, clockVars, ret, loopVars, callbackVars,
                   registry_fetches, idp_round_trips, iterations, ledgerVars>>

\* lines 274-322: registry::transfer_factory::get is called
FetchContext ==
    /\ pc = "start"
    /\ params.recipients # <<>>
    /\ ~params.registry_response.some
    /\ registry_fetches' = registry_fetches + 1
    /\ pc' = "registry"
    /\ UNCHANGED <<params, tokenVars, clockVars, ret, additional_information,
                   loopVars, callbackVars, idp_round_trips, iterations, ledgerVars>>

\* line 322 "?": the registry call failed
RegistryFails ==
    /\ pc = "registry"
    /\ pc' = "returned"
    /\ ret' = Some(Err(RegistryFailedMsg))
    /\ UNCHANGED <<params, tokenVars, clockVars, additional_information, loopVars,
                   callbackVars, registry_fetches, idp_round_trips, iterations,
                   ledgerVars>>

\* lines 323-337: the registry answered
RegistryAnswers ==
    /\ pc = "registry"
    /\ additional_information' = Some(FetchedContext)
    /\ pc' = "loop"
    /\ UNCHANGED <<params, tokenVars, clockVars, ret, loopVars, callbackVars,
                   registry_fetches, idp_round_trips, iterations, ledgerVars>>

\* ---------------------------------------------------------------- the loop

\* mutant of HaveRecipient: the next iteration starts while the submission of
\* the one before is still unanswered
HaveRecipientOverlapping ==
    pc \in {"loop", "submit"} /\ idx < Len(params.recipients)

\* "for (idx, recipient) in params.recipients.iter().enumerate()"
HaveRecipient == pc = "loop" /\ idx < Len(params.recipients)

\* lines 584-588: the loop is over
ReturnOutcome ==
    /\ pc = "loop"
    /\ idx = Len(params.recipients)
    /\ pc' = "returned"
    /\ ret' = Some(Ok([results |-> results,
                       successful_count |-> successful_count,
                       failed_count |-> failed_count]))
    /\ UNCHANGED <<params, tokenVars, clockVars, additional_information, loopVars,
                   callbackVars, registry_fetches, idp_round_trips, iterations,
                   ledgerVars>>

\* mutant of PoolIsEmpty: the empty-pool check is missing
PoolIsEmptyNever(pool) == FALSE

\* "if current_holding_cids.is_empty()"
PoolIsEmpty(pool) == pool = <<>>

\* mutant of EmptyPool: the credential check comes before the pool check
EmptyPoolAfterCredentialCheck ==
    /\ HaveRecipient
    /\ PoolIsEmpty(current_holding_cids)
    /\ IterationBegun("ok", NeedsRefresh(token_state, now))
    /\ Complete(EmptyPoolResult(idx, RecipientAt(idx)), None)
    /\ UNCHANGED <<params, tokenVars, clockVars, ret, additional_information,
                   registry_fetches, idp_round_trips, ledgerVars>>

\* lines 352-375
EmptyPool ==
    /\ HaveRecipient
    /\ PoolIsEmpty(current_holding_cids)
    /\ IterationBegun("none", FALSE)
    /\ Complete(EmptyPoolResult(idx, RecipientAt(idx)), None)
    /\ UNCHANGED <<params, tokenVars, clockVars, ret, additional_information,
                   registry_fetches, idp_round_trips, ledgerVars>>

\* lines 378-379 with needs_refresh false, then lines 407-483
TokenStillValid ==
    /\ HaveRecipient
    /\ ~PoolIsEmpty(current_holding_cids)
    /\ ~NeedsRefresh(token_state, now)
    /\ IterationBegun("ok", FALSE)
    /\ SendToLedger(token_state.access_token)
    /\ UNCHANGED <<params, tokenVars, clockVars, ret, additional_information,
                   loopVars, callbackVars, registry_fetches, idp_round_trips>>

\* lines 115-124: keycloak::login::refresh is called
StartRefresh ==
    /\ HaveRecipient
    /\ ~PoolIsEmpty(current_holding_cids)
    /\ NeedsRefresh(token_state, now)
    /\ IterationBegun("pending", TRUE)
    /\ idp_round_trips' = idp_round_trips + 1
    /\ pc' = "refresh"
    /\ UNCHANGED <<params, tokenVars, clockVars, ret, additional_information,
                   loopVars, callbackVars, registry_fetches, ledgerVars>>

\* token lifetimes the identity provider answers with
ExpiresInOffered == {ExpiresInAbsent, ExpiresInLong}

\* what keycloak::login::refresh can fail with
RefreshErrors ==
    {<<"Failed to refresh token [", "400", "]: ", "Token is not active">>,
     <<"Keycloak refresh token request error: ", "connection refused">>}

\* what keycloak::login::password can fail with
PasswordErrors == {<<"Failed to get token (password) [", "401", "]: ", "denied">>}

\* lines 146-153, then 407-483: the new token is stored and the transfer sent
StoreAndSend(auth) ==
    /\ ~ExpiryUnderflows(auth)
    /\ token_state' = StoreAuth(token_state, auth, now)
    /\ idp_issued' = idp_issued + 1
    /\ CredCheckDone("ok")
    /\ SendToLedger(auth.access_token)
    /\ UNCHANGED <<params, clockVars, ret, additional_information, loopVars,
                   callbackVars, registry_fetches, idp_round_trips, calls>>

\* line 126: the refresh exchange succeeded
RefreshAnswers ==
    /\ pc = "refresh"
    /\ \E e \in ExpiresInOffered : StoreAndSend(AuthResponse(idp_issued + 1, e))

\* lines 128-137: the refresh token is not usable, the password login is sent
RefreshNotActive ==
    /\ pc = "refresh"
    /\ \E e \in RefreshErrors : RefreshRejected(e)
    /\ idp_round_trips' = idp_round_trips + 1
    /\ pc' = "password"
    /\ UNCHANGED <<params, tokenVars, clockVars, ret, additional_information,
                   loopVars, callbackVars, registry_fetches, iterations, ledgerVars>>

\* mutant of RefreshFails: the error of get_fresh_token is propagated with "?"
RefreshFailsPropagated ==
    /\ pc = "refresh"
    /\ \E e \in RefreshErrors :
          /\ ~RefreshRejected(e)
          /\ ret' = Some(Err(RefreshError(e)))
    /\ pc' = "returned"
    /\ CredCheckDone("err")
    /\ UNCHANGED <<params, tokenVars, clockVars, additional_information, loopVars,
                   callbackVars, registry_fetches, idp_round_trips, ledgerVars>>

\* lines 140-142, then 380-404
RefreshFails ==
    /\ pc = "refresh"
    /\ \E e \in RefreshErrors :
          /\ ~RefreshRejected(e)
          /\ Complete(TokenFailureResult(idx, RecipientAt(idx), RefreshError(e)), None)
    /\ CredCheckDone("err")
    /\ UNCHANGED <<params, tokenVars, clockVars, ret, additional_information,
                   registry_fetches, idp_round_trips, ledgerVars>>

\* line 139: the fallback login succeeded
PasswordAnswers ==
    /\ pc = "password"
    /\ \E e \in ExpiresInOffered : StoreAndSend(AuthResponse(idp_issued + 1, e))

\* mutant of PasswordFails: a failed login empties the pool
PasswordFailsClearsPool ==
    /\ pc = "password"
    /\ \E e \in PasswordErrors :
          Complete(TokenFailureResult(idx, RecipientAt(idx), e), Some(<<>>))
    /\ CredCheckDone("err")
    /\ UNCHANGED <<params, tokenVars, clockVars, ret, additional_information,
                   registry_fetches, idp_round_trips, ledgerVars>>

\* line 137 "?", then 380-404
PasswordFails ==
    /\ pc = "password"
    /\ \E e \in PasswordErrors :
          Complete(TokenFailureResult(idx, RecipientAt(idx), e), None)
    /\ CredCheckDone("err")
    /\ UNCHANGED <<params, tokenVars, clockVars, ret, additional_information,
                   registry_fetches, idp_round_trips, ledgerVars>>

\* lines 146-150 with expires_in < 60: the tokens are stored, then the
\* subtraction (debug) or the addition to SystemTime (release) panics
AuthPanics ==
    /\ pc \in {"refresh", "password"}
    /\ \E e \in ExpiresInOffered :
          LET auth == AuthResponse(idp_issued + 1, e)
          IN  /\ ExpiryUnderflows(auth)
              /\ token_state' = [token_state EXCEPT
                                    !.access_token = auth.access_token,
                                    !.refresh_token = auth.refresh_token]
    /\ idp_issued' = idp_issued + 1
    /\ pc' = "panicked"
    /\ UNCHANGED <<params, clockVars, ret, additional_information, loopVars,
                   callbackVars, registry_fetches, idp_round_trips, iterations,
                   ledgerVars, calls>>

\* --------------------------------------------------------------- the ledger

LedgerErrors ==
    {<<"Submit request failed in wait_for_transaction_tree [", "400", "]">>}

ChangeIds(first, n) == [k \in 1..n |-> first + k - 1]

\* a transaction tree as the ledger writes it for an accepted transfer that
\* created the change holdings `change` and the instruction `offer`
GoodBody(change, offer, upd) ==
    Body(TRUE, Some(JStr(upd)),
         Some(<<CreatedEvent,
                ExercisedEvent(TransferChoice,
                               Some([k \in 1..Len(change) |-> JStr(change[k])]),
                               Some(JStr(offer)))>>))

\* the same tree whose exercise result carries no senderChangeCids
BodyWithoutChange(offer, upd) ==
    Body(TRUE, Some(JStr(upd)),
         Some(<<CreatedEvent,
                ExercisedEvent(TransferChoice, None, Some(JStr(offer)))>>))

\* the answers of a ledger that accepted a transfer, by the number of change
\* holdings it created: <<body, contract ids created>>
AcceptedAnswers(first) ==
    {<<GoodBody(ChangeIds(first, n), first + n, first), n + 1>> : n \in 0..MaxChange}
    \cup {<<BodyWithoutChange(first + 1, first), 2>>}

\* lines 485-546: a 2xx answer is parsed and the arm taken
HandleResponse(response_raw) ==
    LET parsed == parse_transfer_response(response_raw)
        recipient == RecipientAt(idx)
        reference == TransferReference(params, recipient)
    IN  IF parsed.ok
        THEN Complete(SuccessResult(idx, recipient, reference, response_raw, parsed),
                      Some(parsed.sender_change_cids))
        ELSE Complete(ParseFailureResult(idx, recipient, reference, response_raw,
                                         parsed.err), None)

\* the ledger commits the transfer: its inputs are archived, the tree is returned
LedgerAccepts ==
    /\ pc = "submit"
    /\ LET req == in_flight[1]
           inputs == SeqToSet(req.transfer.input_holding_cids.v)
       IN  /\ inputs \cap consumed = {}
           /\ consumed' = consumed \cup inputs
           /\ \E a \in AcceptedAnswers(next_cid) :
                 /\ next_cid' = next_cid + a[2]
                 /\ HandleResponse(a[1])
    /\ in_flight' = Tail(in_flight)
    /\ UNCHANGED <<params, tokenVars, clockVars, ret, additional_information,
                   registry_fetches, idp_round_trips, iterations, submissions>>

\* mutant of LedgerRejects: the error of the submission is propagated with "?",
\* as transfer::submit does
LedgerRejectsAborts ==
    /\ pc = "submit"
    /\ \E e \in LedgerErrors : ret' = Some(Err(e))
    /\ pc' = "returned"
    /\ in_flight' = Tail(in_flight)
    /\ UNCHANGED <<params, tokenVars, clockVars, additional_information, loopVars,
                   callbackVars, registry_fetches, idp_round_trips, iterations,
                   submissions, consumed, next_cid>>

\* lines 548-574: the ledger (or the transport) refuses the transfer
LedgerRejects ==
    /\ pc = "submit"
    /\ \E e \in LedgerErrors :
          Complete(LedgerFailureResult(idx, RecipientAt(idx),
                                       TransferReference(params, RecipientAt(idx)), e),
                   None)
    /\ in_flight' = Tail(in_flight)
    /\ UNCHANGED <<params, tokenVars, clockVars, ret, additional_information,
                   registry_fetches, idp_round_trips, iterations, submissions,
                   consumed, next_cid>>

\* "callback(result.clone()).await" returns: the result is pushed
CallbackReturns ==
    /\ pc = "callback"
    /\ Push(pending.v.result, pending.v.change)
    /\ pending' = None
    /\ callbacks_completed' = callbacks_completed + 1
    /\ UNCHANGED <<params, tokenVars, clockVars, ret, additional_information,
                   observed, registry_fetches, idp_round_trips, iterations,
                   ledgerVars>>

\* time passes between two recipients: long enough for a token to run out
Tick ==
    /\ HaveRecipient
    /\ ticks < MaxTicks
    /\ now' = now + ExpiresInLong
    /\ ticks' = ticks + 1
    /\ UNCHANGED <<params, tokenVars, pc, ret, additional_information, loopVars,
                   callbackVars, registry_fetches, idp_round_trips, iterations,
                   ledgerVars>>

Next ==
    \/ ReturnNoRecipients
    \/ UseSuppliedContext
    \/ FetchContext
    \/ RegistryFails
    \/ RegistryAnswers
    \/ ReturnOutcome
    \/ EmptyPool
    \/ TokenStillValid
    \/ StartRefresh
    \/ RefreshAnswers
    \/ RefreshNotActive
    \/ RefreshFails
    \/ PasswordAnswers
    \/ PasswordFails
    \/ AuthPanics
    \/ LedgerAccepts
    \/ LedgerRejects
    \/ CallbackReturns
    \/ Tick

Spec == Init /\ [][Next]_vars

\* ------------------------------------------------------------- properties

ReturnedOk == pc = "returned" /\ ret.v.ok
ReturnedErr == pc = "returned" /\ ~ret.v.ok

\* result k (1-based) belongs to the k-th recipient of the input
MatchesInput(rs, k) ==
    /\ rs[k].transfer_index = k - 1
    /\ rs[k].receiver = params.recipients[k].receiver
    /\ rs[k].amount = params.recipients[k].amount

NumberWith(rs, flag) == Cardinality({k \in 1..Len(rs) : rs[k].success = flag})

\* C1: the results recorded so far are, in input order, those of the first
\* recipients, each with its own index, receiver and amount; and a call that
\* returns an outcome returns exactly one such record per recipient, whatever
\* mix of empty-pool, credential, ledger, parse failures and successes occurred.
C1_OneResultPerRecipientInOrder ==
    /\ Len(results) <= Len(params.recipients)
    /\ \A k \in 1..Len(results) : MatchesInput(results, k)
    /\ ReturnedOk =>
          /\ Len(ret.v.v.results) = Len(params.recipients)
          /\ \A k \in 1..Len(ret.v.v.results) : MatchesInput(ret.v.v.results, k)

\* C1 witness: a call over three recipients has returned an outcome holding a
\* success, a failure after a ledger answer and a failure without one
C1_Witness ==
    /\ ReturnedOk
    /\ Len(ret.v.v.results) = 3
    /\ \E a, b, c \in 1..3 :
          /\ ret.v.v.results[a].success
          /\ ~ret.v.v.results[b].success /\ ret.v.v.results[b].raw_response.some
          /\ ~ret.v.v.results[c].success /\ ~ret.v.v.results[c].raw_response.some

\* C2: at every point of the loop the two counters are the numbers of
\* successful and of failed results recorded, they add up to the number of
\* results, every finished iteration has left exactly one result, and the
\* outcome returned carries these results and counters unchanged.
C2_CountersTallyResults ==
    /\ successful_count = NumberWith(results, TRUE)
    /\ failed_count = NumberWith(results, FALSE)
    /\ successful_count + failed_count = Len(results)
    /\ Len(results) = idx
    /\ ReturnedOk =>
          /\ ret.v.v.results = results
          /\ ret.v.v.successful_count = NumberWith(results, TRUE)
          /\ ret.v.v.failed_count = NumberWith(results, FALSE)

\* C2 witness: an outcome with at least one success and two failures
C2_Witness ==
    /\ ReturnedOk
    /\ ret.v.v.successful_count >= 1
    /\ ret.v.v.failed_count >= 2

\* the change extracted from the latest successful result among the first n
\* results, or the initial holdings when none of them succeeded
RECURSIVE LastChange(_, _)
LastChange(rs, n) ==
    IF n = 0 THEN params.initial_holding_cids
    ELSE IF rs[n].success
         THEN parse_transfer_response(rs[n].raw_response.v).sender_change_cids
         ELSE LastChange(rs, n - 1)

\* C3: the input holdings of every transfer sent to the ledger are the
\* senderChangeCids found in the response of the most recent earlier transfer
\* recorded as successful, or the initial holdings if there is none.
C3_InputsAreLastChange ==
    \A j \in 1..Len(submissions) :
        LET s == submissions[j]
        IN  s.request.transfer.input_holding_cids =
                Some(LastChange(results, s.results_len))

\* C3 witness: the third transfer is sent after a success and a failure, and
\* carries the change of the first transfer, which is not the initial pool
C3_Witness ==
    /\ Len(results) >= 2
    /\ results[1].success
    /\ ~results[2].success
    /\ \E j \in 1..Len(submissions) :
          /\ submissions[j].transfer_index = 2
          /\ submissions[j].request.transfer.input_holding_cids.v
                # params.initial_holding_cids
          /\ submissions[j].request.transfer.input_holding_cids.v # <<>>

\* C4: the holding pool changes only in a step that records a successful
\* result; every other step, and so every iteration that ends in a failed
\* result, leaves it as it was.
C4_PoolChangesOnlyOnSuccess ==
    [][current_holding_cids' # current_holding_cids =>
          /\ Len(results') = Len(results) + 1
          /\ results'[Len(results')].success]_vars

\* C4 witness: failures of all three kinds that follow a get_fresh_token call
\* have been recorded and the pool is still the non-empty initial one
C4_Witness ==
    /\ Len(results) = 3
    /\ \A k \in 1..3 : ~results[k].success
    /\ \E k \in 1..3 : results[k].raw_response.some
    /\ \E k \in 1..3 :
          /\ results[k].error.v[1] = "Failed to get fresh token: "
    /\ \E k \in 1..3 : results[k].error.v[1] = "Ledger submission failed: "
    /\ current_holding_cids = params.initial_holding_cids
    /\ current_holding_cids # <<>>

\* C5: with a ledger that archives every input holding of a transfer it
\* accepts, no transfer is ever sent with an input holding that an earlier
\* accepted transfer of the batch has consumed, and no transfer is sent while
\* another one is still unanswered.
C5_ConsumedHoldingsNeverResubmitted ==
    /\ \A j \in 1..Len(submissions) :
          /\ submissions[j].stale = {}
          /\ submissions[j].others_in_flight = 0
    /\ Len(in_flight) <= 1

\* C6: with no initial holdings no transfer is ever sent to the ledger, every
\* result recorded is a failure carrying the no-UTXOs message, and the outcome
\* returned for k recipients counts 0 successes and k failures.
C6_EmptyInitialPoolFailsAll ==
    params.initial_holding_cids = <<>> =>
        /\ submissions = <<>>
        /\ in_flight = <<>>
        /\ \A k \in 1..Len(results) :
              /\ ~results[k].success
              /\ results[k].error = Some(NoUtxosMsg)
        /\ ReturnedOk =>
              /\ Len(ret.v.v.results) = Len(params.recipients)
              /\ ret.v.v.successful_count = 0
              /\ ret.v.v.failed_count = Len(params.recipients)

\* C6 witness: the call over two recipients and no holdings has returned
C6_Witness ==
    /\ ReturnedOk
    /\ params.initial_holding_cids = <<>>
    /\ Len(params.recipients) = 2
    /\ ret.v.v.failed_count = 2

\* C7: the call returns an error only for an empty recipient list or a failed
\* registry fetch, and when it does no result has been produced, the callback
\* has not been called, no iteration (so no credential check) has begun, the
\* identity provider has not been contacted and nothing was sent to the ledger.
C7_HardErrorOnlyBeforeTheLoop ==
    ReturnedErr =>
        /\ \/ /\ ret.v.err = NoRecipientsMsg
              /\ params.recipients = <<>>
              /\ registry_fetches = 0
           \/ /\ ret.v.err = RegistryFailedMsg
              /\ params.recipients # <<>>
              /\ ~params.registry_response.some
              /\ registry_fetches = 1
        /\ results = <<>>
        /\ observed = <<>>
        /\ iterations = <<>>
        /\ idp_round_trips = 0
        /\ submissions = <<>>

\* C7 witness: a call over three recipients has failed on the registry fetch
C7_Witness ==
    /\ ReturnedErr
    /\ Len(params.recipients) = 3
    /\ params.initial_holding_cids # <<>>
    /\ registry_fetches = 1

\* C8: once the loop has begun the call returns an outcome with one result
\* per recipient, never an error; every iteration on a non-empty pool makes
\* the credential check; and every iteration that follows a failed item, has
\* a non-empty pool and a successful credential check sends its transfer, on
\* that pool, to the ledger.
C8_FailureDoesNotAbortTheBatch ==
    /\ (pc = "returned" /\ iterations # <<>>) =>
          /\ ret.v.ok
          /\ Len(ret.v.v.results) = Len(params.recipients)
    /\ Len(iterations) >= Len(results)
    /\ \A k \in 1..Len(iterations) :
          (iterations[k].pool # <<>>) <=> (iterations[k].cred # "none")
    /\ \A k \in 2..Len(iterations) :
          LET it == iterations[k]
          IN  (~results[k - 1].success /\ it.pool # <<>> /\ it.cred = "ok") =>
                 \E j \in 1..Len(submissions) :
                    /\ submissions[j].transfer_index = it.transfer_index
                    /\ submissions[j].request.transfer.input_holding_cids
                          = Some(it.pool)
                    /\ submissions[j].request.transfer.receiver
                          = params.recipients[k].receiver

\* C8 witness: a credential failure, then a ledger failure, then a success,
\* and the call has returned its outcome
C8_Witness ==
    /\ ReturnedOk
    /\ Len(results) = 3
    /\ ~results[1].success
    /\ results[1].error.v[1] = "Failed to get fresh token: "
    /\ ~results[2].success
    /\ results[2].error.v[1] = "Ledger submission failed: "
    /\ results[3].success

\* C9: with a callback supplied, the callback has been called with exactly
\* the results recorded so far, in order, plus the one it is running on; every
\* iteration (credential check) and every ledger submission of item i starts
\* when the calls for items 0..i-1 have all returned; and when the outcome is
\* returned the callback has been called once per recipient.
C9_CallbackOncePerItemInOrder ==
    CallbackSupplied(params) =>
        /\ pc = "callback" =>
              /\ pending.some
              /\ observed = Append(results, pending.v.result)
        /\ pc # "callback" => observed = results
        /\ callbacks_completed = Len(results)
        /\ \A k \in 1..Len(observed) : observed[k].transfer_index = k - 1
        /\ \A k \in 1..Len(iterations) :
              iterations[k].callbacks_done = iterations[k].transfer_index
        /\ \A j \in 1..Len(submissions) :
              submissions[j].callbacks_done = submissions[j].transfer_index
        /\ ReturnedOk => Len(observed) = Len(params.recipients)

\* C9 witness: the callback has seen three results, failures and a success
C9_Witness ==
    /\ CallbackSupplied(params)
    /\ ReturnedOk
    /\ Len(observed) = 3
    /\ \E a, b \in 1..3 : observed[a].success /\ ~observed[b].success

\* every submission carries the factory id, choice context and disclosed
\* contracts of the registry response ctx
AllSubmissionsCarry(ctx) ==
    \A j \in 1..Len(submissions) :
        /\ submissions[j].request.contract_id = ctx.factory_id
        /\ submissions[j].request.context = ctx.choice_context.choice_context_data
        /\ submissions[j].request.disclosed_contracts
              = ctx.choice_context.disclosed_contracts

\* the registry response a call works with once it has one
ContextOfCall ==
    IF params.registry_response.some THEN params.registry_response.v
    ELSE FetchedContext

\* C10 as stated: the registry is asked at most once; a call that is over has
\* asked exactly once when no registry_response was supplied and never when
\* one was; all submissions carry the same context.
C10_FetchedOnceWheneverNotSupplied ==
    /\ registry_fetches <= 1
    /\ pc \in {"returned", "panicked"} =>
          registry_fetches = (IF params.registry_response.some THEN 0 ELSE 1)
    /\ AllSubmissionsCarry(ContextOfCall)

\* C10 amended: the registry is asked at most once; once the call is past its
\* first step it has asked exactly once when no registry_response was supplied
\* and the recipient list is not empty, and never otherwise; the context is
\* there before the first iteration; all submissions carry that one context.
C10_FetchedOnceForNonEmptyBatch ==
    /\ registry_fetches <= 1
    /\ pc # "start" =>
          registry_fetches =
             (IF params.registry_response.some \/ params.recipients = <<>>
              THEN 0 ELSE 1)
    /\ iterations # <<>> => additional_information = Some(ContextOfCall)
    /\ AllSubmissionsCarry(ContextOfCall)

\* C10 witness: one fetch, then transfers to different receivers for different
\* amounts were sent
C10_Witness ==
    /\ ReturnedOk
    /\ ~params.registry_response.some
    /\ registry_fetches = 1
    /\ \E i, j \in 1..Len(submissions) :
          /\ submissions[i].request.transfer.receiver
                # submissions[j].request.transfer.receiver
          /\ submissions[i].request.transfer.amount
                # submissions[j].request.transfer.amount

\* --------------------------------------------------- one submission at a time

\* C11: at most one ledger submission of a batch is unanswered at any time;
\* a submission is unanswered exactly while the call awaits it; and when the
\* submission of item i is sent, no other one is unanswered, the results of
\* items 0..i-1 have all been recorded, and every earlier submission was for
\* an earlier item.
C11_OneSubmissionInFlight ==
    /\ Len(in_flight) = (IF pc = "submit" THEN 1 ELSE 0)
    /\ \A j \in 1..Len(submissions) :
          /\ submissions[j].others_in_flight = 0
          /\ submissions[j].results_len = submissions[j].transfer_index
          /\ \A h \in 1..(j - 1) :
                submissions[h].transfer_index < submissions[j].transfer_index
    /\ Len(submissions) - Len(in_flight) <= Len(results) + (IF pending.some THEN 1 ELSE 0)

\* C11 witness: the third submission of a batch is unanswered; the first was
\* answered with an error and the second with a transaction tree
C11_Witness ==
    /\ Len(submissions) = 3
    /\ Len(in_flight) = 1
    /\ Len(results) = 2
    /\ ~results[1].success /\ ~results[1].raw_response.some
    /\ results[2].raw_response.some

\* ------------------------------------------- TokenState used on its own

\* most get_fresh_token calls one caller makes on its TokenState
MaxCalls == 3
\* most clock steps during these calls
MaxClockSteps == 1

\* the variables of submit_sequential_chained other than its arguments and
\* its return value
restVars == <<additional_information, loopVars, callbackVars, registry_fetches,
              iterations, ledgerVars>>

chainVars == <<params, ret, restVars>>

\* no chained batch has begun
NoBatchState ==
    /\ additional_information = None
    /\ idx = 0
    /\ current_holding_cids = <<>>
    /\ results = <<>>
    /\ successful_count = 0
    /\ failed_count = 0
    /\ pending = None
    /\ observed = <<>>
    /\ callbacks_completed = 0
    /\ registry_fetches = 0
    /\ iterations = <<>>
    /\ submissions = <<>>
    /\ in_flight = <<>>
    /\ consumed = {}
    /\ next_cid = 1

\* a caller that holds a TokenState and runs no chained batch
NoBatch ==
    /\ params = [recipients |-> <<>>, initial_holding_cids |-> <<>>,
                 reference_base |-> None, on_transfer_complete |-> FALSE,
                 registry_response |-> None]
    /\ ret = None
    /\ NoBatchState

\* no TokenState exists yet and the identity provider has not been asked
NoToken ==
    /\ token_state = None
    /\ now = 0
    /\ ticks = 0
    /\ idp_round_trips = 0
    /\ idp_issued = 0
    /\ calls = <<>>

\* expires_in values of an identity provider's answer: field absent (below the
\* margin), the margin itself, above it
Lifetimes == {ExpiresInAbsent, SafetyMarginSecs, ExpiresInLong}

\* seconds the clock moves in one step: a moment, or up to a deadline
ClockSteps == {1, ExpiresInLong - SafetyMarginSecs}

\* the TokenState values TokenState::new returns, at time 0
NewTokenStates == {TokenStateNew(AuthResponse(0, e), 0) : e \in Lifetimes}

TokenInit ==
    /\ token_state \in NewTokenStates
    /\ now = 0
    /\ ticks = 0
    /\ pc = "idle"
    /\ idp_round_trips = 0
    /\ idp_issued = 0
    /\ calls = <<>>
    /\ NoBatch

\* one get_fresh_token call as the caller and the network see it
Call(needs_refresh, trips, outcome, value) ==
    [at |-> now, before |-> token_state, needs_refresh |-> needs_refresh,
     trips |-> trips, refresh_error |-> None, auth |-> None,
     outcome |-> outcome, value |-> value, done_at |-> now,
     after |-> token_state]

\* the record of the call in progress becomes c
SetCall(c) == calls' = [calls EXCEPT ![Len(calls)] = c]

\* lines 115-116 and 153 with needs_refresh false: the stored token is returned
GetFreshTokenNotDue ==
    /\ pc = "idle"
    /\ Len(calls) < MaxCalls
    /\ ~NeedsRefresh(token_state, now)
    /\ calls' = Append(calls, Call(FALSE, 0, "ok", Ok(token_state.access_token)))
    /\ UNCHANGED <<token_state, idp_issued, clockVars, pc, idp_round_trips, chainVars>>

\* lines 115-124 with needs_refresh true: keycloak::login::refresh is called
GetFreshTokenDue ==
    /\ pc = "idle"
    /\ Len(calls) < MaxCalls
    /\ NeedsRefresh(token_state, now)
    /\ calls' = Append(calls, Call(TRUE, 1, "pending", None))
    /\ idp_round_trips' = idp_round_trips + 1
    /\ pc' = "token_refresh"
    /\ UNCHANGED <<token_state, idp_issued, clockVars, chainVars>>

\* lines 146-153: the answer is stored and the new access token returned; with
\* expires_in < 60 the two tokens are stored and the deadline computation panics
TokenStore(auth) ==
    /\ idp_issued' = idp_issued + 1
    /\ IF ExpiryUnderflows(auth)
       THEN /\ token_state' = [token_state EXCEPT
                                  !.access_token = auth.access_token,
                                  !.refresh_token = auth.refresh_token]
            /\ pc' = "panicked"
            /\ SetCall([calls[Len(calls)] EXCEPT
                            !.auth = Some(auth), !.outcome = "panicked",
                            !.done_at = now, !.after = token_state'])
       ELSE /\ token_state' = StoreAuth(token_state, auth, now)
            /\ pc' = "idle"
            /\ SetCall([calls[Len(calls)] EXCEPT
                            !.auth = Some(auth), !.outcome = "ok",
                            !.value = Ok(auth.access_token),
                            !.done_at = now, !.after = token_state'])
    /\ UNCHANGED <<clockVars, idp_round_trips, chainVars>>

\* mutant of TokenFail: the stored tokens are dropped before the error returns
TokenFailDropsTokens(e) ==
    /\ token_state' = [token_state EXCEPT !.access_token = 0, !.refresh_token = 0]
    /\ SetCall([calls[Len(calls)] EXCEPT
                    !.outcome = "err", !.value = Err(e),
                    !.done_at = now, !.after = token_state'])
    /\ pc' = "idle"
    /\ UNCHANGED <<idp_issued, clockVars, idp_round_trips, chainVars>>

\* the call in progress returns Err(e) at "return Err(..)" or "?"
TokenFail(e) ==
    /\ SetCall([calls[Len(calls)] EXCEPT
                    !.outcome = "err", !.value = Err(e),
                    !.done_at = now, !.after = token_state])
    /\ pc' = "idle"
    /\ UNCHANGED <<token_state, idp_issued, clockVars, idp_round_trips, chainVars>>

\* line 126: the refresh exchange succeeded
TokenRefreshAnswers ==
    /\ pc = "token_refresh"
    /\ \E e \in Lifetimes : TokenStore(AuthResponse(idp_issued + 1, e))

\* lines 128-137: the refresh token is not usable, the password login is sent
TokenRefreshNotActive ==
    /\ pc = "token_refresh"
    /\ \E e \in RefreshErrors :
          /\ RefreshRejected(e)
          /\ SetCall([calls[Len(calls)] EXCEPT
                          !.refresh_error = Some(e), !.trips = @ + 1])
    /\ idp_round_trips' = idp_round_trips + 1
    /\ pc' = "token_password"
    /\ UNCHANGED <<token_state, idp_issued, clockVars, chainVars>>

\* mutant of TokenRefreshFails: every refresh error leads to the password login
TokenRefreshFailsFallsBack ==
    /\ pc = "token_refresh"
    /\ \E e \in RefreshErrors :
          /\ ~RefreshRejected(e)
          /\ SetCall([calls[Len(calls)] EXCEPT
                          !.refresh_error = Some(e), !.trips = @ + 1])
    /\ idp_round_trips' = idp_round_trips + 1
    /\ pc' = "token_password"
    /\ UNCHANGED <<token_state, idp_issued, clockVars, chainVars>>

\* lines 140-142: any other refresh error is returned
TokenRefreshFails ==
    /\ pc = "token_refresh"
    /\ \E e \in RefreshErrors :
          /\ ~RefreshRejected(e)
          /\ SetCall([calls[Len(calls)] EXCEPT
                          !.refresh_error = Some(e), !.outcome = "err",
                          !.value = Err(RefreshError(e)),
                          !.done_at = now, !.after = token_state])
    /\ pc' = "idle"
    /\ UNCHANGED <<token_state, idp_issued, clockVars, idp_round_trips, chainVars>>

\* line 139: the fallback login succeeded
TokenPasswordAnswers ==
    /\ pc = "token_password"
    /\ \E e \in Lifetimes : TokenStore(AuthResponse(idp_issued + 1, e))

\* line 137 "?": the fallback login failed, its error is returned as it is
TokenPasswordFails ==
    /\ pc = "token_password"
    /\ \E e \in PasswordErrors : TokenFail(e)

\* the system clock moves on, between calls or while an exchange is awaited
TokenClock ==
    /\ pc # "panicked"
    /\ ticks < MaxClockSteps
    /\ \E d \in ClockSteps : now' = now + d
    /\ ticks' = ticks + 1
    /\ UNCHANGED <<token_state, idp_issued, calls, pc, idp_round_trips, chainVars>>

TokenNext ==
    \/ GetFreshTokenNotDue
    \/ GetFreshTokenDue
    \/ TokenRefreshAnswers
    \/ TokenRefreshNotActive
    \/ TokenRefreshFails
    \/ TokenPasswordAnswers
    \/ TokenPasswordFails
    \/ TokenClock

SpecToken == TokenInit /\ [][TokenNext]_vars

\* ------------------------------------------- properties of get_fresh_token

\* refresh exchanges a call made: the first round trip of a call is the refresh
RefreshesOf(c) == IF c.trips >= 1 THEN 1 ELSE 0

\* call k began at the moment call k - 1 returned
InImmediateSuccession(k) ==
    /\ k > 1
    /\ calls[k - 1].outcome \in {"ok", "err"}
    /\ calls[k].at = calls[k - 1].done_at

\* C12 as stated: any two calls in immediate succession make one refresh
\* exchange in total, and a later call that begins at or after the deadline
\* they left makes exactly one more.
C12_TwoCallsRefreshOnce ==
    \A k \in 2..Len(calls) :
        (InImmediateSuccession(k) /\ calls[k].outcome \in {"ok", "err"}) =>
            /\ RefreshesOf(calls[k - 1]) + RefreshesOf(calls[k]) = 1
            /\ \A m \in (k + 1)..Len(calls) :
                  calls[m].at >= calls[k].after.expires_at =>
                      RefreshesOf(calls[m]) = 1

\* C12 amended: a call makes one refresh exchange when the clock has reached
\* the stored deadline at its start and none otherwise; the credential state
\* changes only in get_fresh_token; the first call after TokenState::new
\* always refreshes; a call in immediate succession to another makes no
\* refresh exactly when the one before returned a token without refreshing
\* or after storing a lifetime above the margin, and refreshes again when the
\* one before returned an error or stored a lifetime equal to the margin.
C12_RefreshOncePerDeadline ==
    \A k \in 1..Len(calls) :
        LET c == calls[k]
        IN  /\ RefreshesOf(c) = (IF c.at >= c.before.expires_at THEN 1 ELSE 0)
            /\ k = 1 => RefreshesOf(c) = 1
            /\ k > 1 => c.before = calls[k - 1].after
            /\ InImmediateSuccession(k) =>
                  LET b == calls[k - 1]
                  IN  (RefreshesOf(c) = 0) <=>
                         /\ b.outcome = "ok"
                         /\ b.auth.some => b.auth.v.expires_in > SafetyMarginSecs

\* C12 witness: the first call refreshed, the second, made at once, did not,
\* and the third, made when the deadline had come, refreshed once more
C12_Witness ==
    /\ Len(calls) = 3
    /\ \A k \in 1..3 : calls[k].outcome = "ok"
    /\ InImmediateSuccession(2)
    /\ RefreshesOf(calls[1]) = 1
    /\ RefreshesOf(calls[2]) = 0
    /\ calls[3].at >= calls[2].after.expires_at
    /\ RefreshesOf(calls[3]) = 1

RECURSIVE TripsOfFirst(_)
\* identity-provider round trips of the first n calls taken together
TripsOfFirst(n) == IF n = 0 THEN 0 ELSE calls[n].trips + TripsOfFirst(n - 1)

\* C13 as stated: a call has made one round trip when the clock had reached
\* the deadline at its start and none otherwise.
C13_OneRoundTripWhenDue ==
    \A k \in 1..Len(calls) :
        calls[k].trips = (IF calls[k].at >= calls[k].before.expires_at THEN 1 ELSE 0)

\* C13 amended: a call makes no round trip when no refresh is due; when one
\* is due it makes the refresh exchange and, if that was refused with "Token
\* is not active", the password login as well: two round trips; and these
\* are all the requests the identity provider gets.
C13_RoundTripsPerCall ==
    /\ \A k \in 1..Len(calls) :
          LET c == calls[k]
              refused == c.refresh_error.some
                         /\ Contains(c.refresh_error.v, "Token is not active")
          IN  c.trips = (IF c.at < c.before.expires_at THEN 0
                         ELSE IF refused THEN 2 ELSE 1)
    /\ idp_round_trips = TripsOfFirst(Len(calls))

\* C13 witness: a call that was due has returned a token after two round trips
C13_Witness ==
    \E k \in 1..Len(calls) :
        /\ calls[k].outcome = "ok"
        /\ calls[k].at >= calls[k].before.expires_at
        /\ calls[k].trips = 2

\* C14: a call whose refresh exchange was refused with "Token is not active"
\* goes on to the password login; when that succeeds the call returns the new
\* access token and leaves the tokens and the deadline a successful refresh
\* with the same answer would leave; when it fails the call returns that
\* error; any other refresh failure is returned as "Failed to refresh JWT:
\* .." without a password login; a returned error leaves the state as it was.
C14_FallbackToPasswordLogin ==
    \A k \in 1..Len(calls) :
        LET c == calls[k]
            refused == c.refresh_error.some
                       /\ Contains(c.refresh_error.v, "Token is not active")
        IN  /\ (c.auth.some /\ c.outcome = "ok") =>
                  /\ c.value = Ok(c.auth.v.access_token)
                  /\ c.after = [access_token |-> c.auth.v.access_token,
                                refresh_token |-> c.auth.v.refresh_token,
                                expires_at |-> c.done_at + c.auth.v.expires_in
                                                  - SafetyMarginSecs]
            /\ (c.auth.some /\ c.outcome = "panicked") =>
                  c.auth.v.expires_in < SafetyMarginSecs
            /\ refused =>
                  /\ c.trips = 2
                  /\ (pc = "token_password" /\ k = Len(calls)) <=> c.outcome = "pending"
                  /\ c.outcome = "err" =>
                        /\ c.value.err \in PasswordErrors
                        /\ c.after = c.before
            /\ (c.refresh_error.some /\ ~refused) =>
                  /\ c.trips = 1
                  /\ c.outcome = "err"
                  /\ c.value = Err(<<"Failed to refresh JWT: ">> \o c.refresh_error.v)
                  /\ c.after = c.before

\* C14 witness: one call fell back to the password login and stored its
\* answer, another returned the error of a refresh that failed otherwise, a
\* third returned the error of the password login
C14_Witness ==
    /\ Len(calls) = 3
    /\ \E k \in 1..3 :
          /\ calls[k].refresh_error.some
          /\ calls[k].outcome = "ok"
          /\ calls[k].after.access_token = calls[k].auth.v.access_token
          /\ calls[k].after # calls[k].before
    /\ \E k \in 1..3 :
          /\ calls[k].outcome = "err"
          /\ calls[k].trips = 1
    /\ \E k \in 1..3 :
          /\ calls[k].outcome = "err"
          /\ calls[k].trips = 2

\* C15: every answer of the identity provider is stored with the deadline
\* now + expires_in - 60, whatever expires_in it carries, and the computation
\* never fails.
C15_DeadlineIsLifetimeLessMargin ==
    /\ pc # "panicked"
    /\ \A k \in 1..Len(calls) :
          calls[k].auth.some =>
              calls[k].after.expires_at =
                  calls[k].done_at + calls[k].auth.v.expires_in - SafetyMarginSecs

\* ------------------------------------------ generate_unique_reference alone

\* longest string given to generate_unique_reference
MaxStrLen == 1

\* <<reference_base, sender, receiver>>, each a string over the characters a
\* and - of length up to MaxStrLen
Triples ==
    LET Strings == UNION {[1..n -> {"a", "-"}] : n \in 0..MaxStrLen}
    IN  Strings \X Strings \X Strings

\* two calls are about to be made, each with a triple of its own
ReferenceInit ==
    /\ params \in Triples \X Triples
    /\ pc = "call"
    /\ ret = None
    /\ NoBatchState
    /\ NoToken

\* both calls return
GenerateReferences ==
    /\ pc = "call"
    /\ ret' = Some(<<generate_unique_reference(params[1][1], params[1][2], params[1][3]),
                     generate_unique_reference(params[2][1], params[2][2], params[2][3])>>)
    /\ pc' = "returned"
    /\ UNCHANGED <<params, restVars, tokenVars, clockVars, idp_round_trips>>

SpecReference == ReferenceInit /\ [][GenerateReferences]_vars

\* C16: calls with equal (base, sender, receiver) return equal references and
\* calls with triples that differ in any of the three return different ones.
C16_ReferenceDeterministicAndInjective ==
    pc = "returned" => ((params[1] = params[2]) <=> (ret.v[1] = ret.v[2]))

\* the recipient the j-th submission was made for
RecipientOf(j) == params.recipients[submissions[j].transfer_index + 1]

DistParamsSet ==
    {[recipients |-> [k \in 1..n |->
                        [receiver |-> RecipientList(3, n)[k].receiver,
                         amount |-> RecipientList(3, n)[k].amount]],
      reference_base |-> rb,
      on_transfer_complete |-> ~rb.some] :
        n \in 0..MaxRecipients, rb \in {None, Some(<<"r", "-", "1">>)}}

\* distribute::submit has been called and awaits TokenState::new
DistInit ==
    /\ params \in DistParamsSet
    /\ pc = "dist_new"
    /\ ret = None
    /\ NoBatchState
    /\ NoToken

\* distribute::submit returns Err(e)
DistReturnsErr(e) ==
    /\ ret' = Some(Err(e))
    /\ pc' = "returned"
    /\ UNCHANGED <<params, restVars, tokenVars, clockVars>>

\* lines 43-50: the password login of TokenState::new failed
DistNewFails ==
    /\ pc = "dist_new"
    /\ idp_round_trips' = idp_round_trips + 1
    /\ \E e \in PasswordErrors :
          DistReturnsErr(<<"Failed to initialize token state: ">> \o e)

\* lines 43-50: TokenState::new returns the state built from the login answer;
\* with expires_in < 20 a debug build panics instead
DistNewAnswers ==
    /\ pc = "dist_new"
    /\ idp_round_trips' = idp_round_trips + 1
    /\ idp_issued' = idp_issued + 1
    /\ \E e \in ExpiresInOffered :
          \/ /\ token_state' = TokenStateNew(AuthResponse(idp_issued + 1, e), now)
             /\ pc' = "idle"
          \/ /\ e < NewMarginSecs
             /\ pc' = "panicked"
             /\ UNCHANGED token_state
    /\ UNCHANGED <<calls, clockVars, chainVars>>

\* line 52: get_fresh_token is called on the new state, where a refresh is due
DistGetFreshToken ==
    /\ calls = <<>>
    /\ GetFreshTokenDue

\* line 52 "?": the error of get_fresh_token is returned
DistAuthFails ==
    /\ pc = "idle"
    /\ Len(calls) = 1
    /\ calls[1].outcome = "err"
    /\ DistReturnsErr(calls[1].value.err)
    /\ UNCHANGED idp_round_trips

\* lines 55-60: active_contracts::get is called with the fresh token
DistFetchContracts ==
    /\ pc = "idle"
    /\ Len(calls) = 1
    /\ calls[1].outcome = "ok"
    /\ pc' = "dist_contracts"
    /\ UNCHANGED <<tokenVars, clockVars, idp_round_trips, chainVars>>

\* line 60 "?": the holdings could not be fetched
DistContractsFail ==
    /\ pc = "dist_contracts"
    /\ DistReturnsErr(<<"Failed to get active contracts">>)
    /\ UNCHANGED idp_round_trips

\* mutant of DistContractsAnswer: only the first holding is passed on
DistContractsAnswerFirstOnly ==
    /\ pc = "dist_contracts"
    /\ \E h \in HoldingLists :
          IF h = <<>>
          THEN /\ DistReturnsErr(<<"No UTXOs available for transfers">>)
               /\ UNCHANGED idp_round_trips
          ELSE /\ params' =
                     [recipients |->
                         [k \in 1..Len(params.recipients) |->
                             Recipient(params.recipients[k].receiver,
                                       params.recipients[k].amount, None)],
                      initial_holding_cids |-> SubSeq(h, 1, 1),
                      reference_base |-> params.reference_base,
                      on_transfer_complete |-> params.on_transfer_complete,
                      registry_response |-> None]
               /\ current_holding_cids' = SubSeq(h, 1, 1)
               /\ next_cid' = Len(h) + 1
               /\ pc' = "start"
               /\ UNCHANGED <<ret, additional_information, idx, results,
                              successful_count, failed_count, callbackVars,
                              registry_fetches, iterations, submissions,
                              in_flight, consumed, tokenVars, clockVars,
                              idp_round_trips>>

\* lines 62-106: no holdings is an error; otherwise submit_sequential_chained
\* is called with every holding, recipients without a reference of their own
\* and no registry response
DistContractsAnswer ==
    /\ pc = "dist_contracts"
    /\ \E h \in HoldingLists :
          IF h = <<>>
          THEN /\ DistReturnsErr(<<"No UTXOs available for transfers">>)
               /\ UNCHANGED idp_round_trips
          ELSE /\ params' =
                     [recipients |->
                         [k \in 1..Len(params.recipients) |->
                             Recipient(params.recipients[k].receiver,
                                       params.recipients[k].amount, None)],
                      initial_holding_cids |-> h,
                      reference_base |-> params.reference_base,
                      on_transfer_complete |-> params.on_transfer_complete,
                      registry_response |-> None]
               /\ current_holding_cids' = h
               /\ next_cid' = Len(h) + 1
               /\ pc' = "start"
               /\ UNCHANGED <<ret, additional_information, idx, results,
                              successful_count, failed_count, callbackVars,
                              registry_fetches, iterations, submissions,
                              in_flight, consumed, tokenVars, clockVars,
                              idp_round_trips>>

DistNext ==
    \/ DistNewFails
    \/ DistNewAnswers
    \/ DistGetFreshToken
    \/ TokenRefreshAnswers
    \/ TokenRefreshNotActive
    \/ TokenRefreshFails
    \/ TokenPasswordAnswers
    \/ TokenPasswordFails
    \/ DistAuthFails
    \/ DistFetchContracts
    \/ DistContractsFail
    \/ DistContractsAnswer
    \/ ReturnNoRecipients
    \/ FetchContext
    \/ RegistryFails
    \/ RegistryAnswers
    \/ ReturnOutcome
    \/ EmptyPool
    \/ TokenStillValid
    \/ StartRefresh
    \/ RefreshAnswers
    \/ RefreshNotActive
    \/ RefreshFails
    \/ PasswordAnswers
    \/ PasswordFails
    \/ AuthPanics
    \/ LedgerAccepts
    \/ LedgerRejects
    \/ CallbackReturns
    \/ Tick

SpecDistribute == DistInit /\ [][DistNext]_vars

\* C18: in a distribute::submit call with a reference base any two transfers
\* sent to the ledger carry different references.
C18_ReferencesDifferWithinBatch ==
    params.reference_base.some =>
        \A i, j \in 1..Len(submissions) :
            i # j => submissions[i].request.transfer.meta_reference
                        # submissions[j].request.transfer.meta_reference

\* ------------------------------------------- parse_transfer_response alone

\* most entries of eventsById in a response
MaxEvents == 2

\* response bodies: text that is no JSON, and JSON whose updateId is absent, a
\* string or a number and whose eventsById is absent or holds up to MaxEvents
\* events.  An exercised event names the transfer choice or another one; its
\* senderChangeCids is absent (or no array), an array of strings or an array
\* with a number in it; its transferInstructionCid is absent, a string or a
\* number
ParseResponses ==
    LET Events ==
            {CreatedEvent}
            \cup {ExercisedEvent(c, ch, cid) :
                    c \in {TransferChoice, "TransferInstruction_Accept"},
                    ch \in {None, Some(<<>>), Some(<<JStr(1)>>),
                            Some(<<JStr(1), JNum(2)>>)},
                    cid \in {None, Some(JStr(9)), Some(JNum(9))}}
        EventLists == UNION {[1..n -> Events] : n \in 0..MaxEvents}
    IN  {Body(FALSE, None, None)}
        \cup {Body(TRUE, u, ev) :
                u \in {None, Some(JStr(7)), Some(JNum(7))},
                ev \in {None} \cup {Some(l) : l \in EventLists}}

\* parse_transfer_response is about to be called on a response body
ParseInit ==
    /\ params \in ParseResponses
    /\ pc = "call"
    /\ ret = None
    /\ NoBatchState
    /\ NoToken

\* the call returns
ParseReturns ==
    /\ pc = "call"
    /\ ret' = Some(parse_transfer_response(params))
    /\ pc' = "returned"
    /\ UNCHANGED <<params, restVars, tokenVars, clockVars, idp_round_trips>>

SpecParse == ParseInit /\ [][ParseReturns]_vars

\* an exercised event of the transfer choice whose senderChangeCids is an
\* array of strings and whose transferInstructionCid is a string
WellShapedTransferEvent(ev) ==
    /\ ev.kind = "ExercisedTreeEvent"
    /\ ev.choice = TransferChoice
    /\ ev.senderChangeCids.some
    /\ \A k \in 1..Len(ev.senderChangeCids.v) : ev.senderChangeCids.v[k].k = "str"
    /\ JIsStr(ev.transferInstructionCid)

\* C19: the call returns a triple exactly when the body is JSON, its updateId
\* is a string and eventsById holds a well-shaped event of the transfer
\* choice, and the triple then holds the change ids and the instruction id of
\* such an event and the updateId; in every other case, a senderChangeCids
\* array with a non-string element among them, it returns an error.
C19_ErrorUnlessWellShaped ==
    pc = "returned" =>
        LET r == params
            good == IF r.json /\ r.eventsById.some
                    THEN {k \in 1..Len(r.eventsById.v) :
                             WellShapedTransferEvent(r.eventsById.v[k])}
                    ELSE {}
        IN  /\ ret.v.ok <=> (r.json /\ JIsStr(r.updateId) /\ good # {})
            /\ ret.v.ok =>
                  /\ ret.v.update_id = r.updateId.v.v
                  /\ \E k \in good :
                        /\ ret.v.sender_change_cids =
                              [i \in 1..Len(r.eventsById.v[k].senderChangeCids.v) |->
                                  r.eventsById.v[k].senderChangeCids.v[i].v]
                        /\ ret.v.transfer_offer_cid =
                              r.eventsById.v[k].transferInstructionCid.v.v

\* --------------------------------------------- accept_all and withdraw_all

\* most transfer instructions pending for the party when the call is made
MaxPending == 12
\* "const BATCH_SIZE: usize = 5"
BATCH_SIZE == 5

\* a call of accept_all or of withdraw_all, and the contract ids of the
\* transfer instructions that fetch_incoming_transfers (fetch_outgoing_
\* transfers) will answer with
BatchParamsSet ==
    {[op |-> op, pending_transfers |-> [k \in 1..n |-> k]] :
        op \in {"accept_all", "withdraw_all"}, n \in 0..MaxPending}

\* the call awaits keycloak::login::password
BatchInit ==
    /\ params \in BatchParamsSet
    /\ pc = "batch_auth"
    /\ ret = None
    /\ NoBatchState
    /\ NoToken

\* the three "?": the login, the fetch of the pending transfers or the fetch
\* of the choice context failed and the call returns the error
BatchFails ==
    /\ pc \in {"batch_auth", "batch_fetch", "batch_context"}
    /\ ret' = Some(Err(IF pc = "batch_auth" THEN <<"Authentication failed: ">>
                       ELSE IF pc = "batch_fetch" THEN <<"Failed to fetch transfers">>
                       ELSE <<"Accept context request failed">>))
    /\ pc' = "returned"
    /\ UNCHANGED <<params, restVars, tokenVars, clockVars, idp_round_trips>>

\* the login answered; the pending transfers are asked for with its token
BatchAuthAnswers ==
    /\ pc = "batch_auth"
    /\ token_state' = AuthResponse(idp_issued + 1, ExpiresInLong)
    /\ idp_issued' = idp_issued + 1
    /\ idp_round_trips' = idp_round_trips + 1
    /\ pc' = "batch_fetch"
    /\ UNCHANGED <<calls, clockVars, chainVars>>

\* the pending transfers arrived: with none the call returns an empty result,
\* else registry::accept_context::get is called for the first of them
BatchFetchAnswers ==
    /\ pc = "batch_fetch"
    /\ IF params.pending_transfers = <<>>
       THEN /\ ret' = Some(Ok([results |-> <<>>, successful_count |-> 0,
                               failed_count |-> 0]))
            /\ pc' = "returned"
            /\ UNCHANGED registry_fetches
       ELSE /\ registry_fetches' = registry_fetches + 1
            /\ pc' = "batch_context"
            /\ UNCHANGED ret
    /\ UNCHANGED <<params, additional_information, loopVars, callbackVars,
                   iterations, ledgerVars, tokenVars, clockVars, idp_round_trips>>

\* the choice context arrived
BatchContextAnswers ==
    /\ pc = "batch_context"
    /\ additional_information' =
          Some([choice_context_data |-> <<"context", params.pending_transfers[1]>>,
                disclosed_contracts |-> <<"disclosed", params.pending_transfers[1]>>])
    /\ pc' = "batch_loop"
    /\ UNCHANGED <<params, ret, loopVars, callbackVars, registry_fetches,
                   iterations, ledgerVars, tokenVars, clockVars, idp_round_trips>>

\* mutant of Chunk: consecutive chunks share an item
ChunkOverlapping(items, batch_idx) ==
    LET start_idx == batch_idx * (BATCH_SIZE - 1)
        end_idx == IF start_idx + BATCH_SIZE < Len(items)
                   THEN start_idx + BATCH_SIZE ELSE Len(items)
    IN  SubSeq(items, start_idx + 1, end_idx)

\* the batch_idx-th element of pending_transfers.chunks(BATCH_SIZE), counted
\* from 0
Chunk(items, batch_idx) ==
    LET start_idx == batch_idx * BATCH_SIZE
        end_idx == IF start_idx + BATCH_SIZE < Len(items)
                   THEN start_idx + BATCH_SIZE ELSE Len(items)
    IN  SubSeq(items, start_idx + 1, end_idx)

\* mutant of BatchSubmit: every chunk is submitted with a context of its own
BatchSubmitOwnContext ==
    /\ pc = "batch_loop"
    /\ idx * BATCH_SIZE < Len(params.pending_transfers)
    /\ LET batch_transfers == Chunk(params.pending_transfers, idx)
           req == [commands |->
                      [k \in 1..Len(batch_transfers) |->
                          [contract_id |-> batch_transfers[k],
                           choice |-> IF params.op = "accept_all"
                                      THEN "TransferInstruction_Accept"
                                      ELSE "TransferInstruction_Withdraw",
                           context |-> <<"context", batch_transfers[1]>>]],
                   disclosed_contracts |-> additional_information.v.disclosed_contracts,
                   access_token |-> token_state.access_token]
       IN  /\ submissions' = Append(submissions,
                 [request |-> req, batch_idx |-> idx, results_len |-> Len(results),
                  others_in_flight |-> Len(in_flight)])
           /\ in_flight' = Append(in_flight, req)
    /\ pc' = "batch_submit"
    /\ UNCHANGED <<params, ret, additional_information, loopVars, callbackVars,
                   registry_fetches, iterations, consumed, next_cid, tokenVars,
                   clockVars, idp_round_trips>>

\* one round of the for loop up to the await: the commands of the chunk are
\* built on the shared context and submitted as one request
BatchSubmit ==
    /\ pc = "batch_loop"
    /\ idx * BATCH_SIZE < Len(params.pending_transfers)
    /\ LET batch_transfers == Chunk(params.pending_transfers, idx)
           req == [commands |->
                      [k \in 1..Len(batch_transfers) |->
                          [contract_id |-> batch_transfers[k],
                           choice |-> IF params.op = "accept_all"
                                      THEN "TransferInstruction_Accept"
                                      ELSE "TransferInstruction_Withdraw",
                           context |-> additional_information.v.choice_context_data]],
                   disclosed_contracts |-> additional_information.v.disclosed_contracts,
                   access_token |-> token_state.access_token]
       IN  /\ submissions' = Append(submissions,
                 [request |-> req, batch_idx |-> idx, results_len |-> Len(results),
                  others_in_flight |-> Len(in_flight)])
           /\ in_flight' = Append(in_flight, req)
    /\ pc' = "batch_submit"
    /\ UNCHANGED <<params, ret, additional_information, loopVars, callbackVars,
                   registry_fetches, iterations, consumed, next_cid, tokenVars,
                   clockVars, idp_round_trips>>

\* mutant of BatchResults: only the first item of a refused chunk carries the
\* error
BatchResultsFirstOnly(commands, answer) ==
    [k \in 1..Len(commands) |->
        [success |-> answer.ok,
         contract_id |-> commands[k].contract_id,
         error |-> IF answer.ok \/ k > 1 THEN None ELSE Some(answer.err)]]

\* batch_results after the match on the ledger's answer: pushed with success
\* false and no error, then every one set to success on Ok(_), or given a
\* clone of the error on Err(e)
BatchResults(commands, answer) ==
    [k \in 1..Len(commands) |->
        [success |-> answer.ok,
         contract_id |-> commands[k].contract_id,
         error |-> IF answer.ok THEN None ELSE Some(answer.err)]]

\* the rest of the round: the ledger answered, every item of the chunk gets
\* the outcome of the request and the results of the chunk are appended
BatchLedgerAnswers ==
    /\ pc = "batch_submit"
    /\ LET commands == in_flight[1].commands
           n == Len(commands)
       IN  \E answer \in {Ok(<<"tree">>)} \cup
                         {Err(e) : e \in LedgerErrors \cup {<<"error sending request for url">>}} :
              /\ results' = results \o BatchResults(commands, answer)
              /\ successful_count' = successful_count + (IF answer.ok THEN n ELSE 0)
              /\ failed_count' = failed_count + (IF answer.ok THEN 0 ELSE n)
              /\ iterations' = Append(iterations,
                                      [batch_idx |-> idx, answer |-> answer])
    /\ in_flight' = Tail(in_flight)
    /\ idx' = idx + 1
    /\ pc' = "batch_loop"
    /\ UNCHANGED <<params, ret, additional_information, current_holding_cids,
                   callbackVars, registry_fetches, submissions,
                   consumed, next_cid, tokenVars, clockVars, idp_round_trips>>

\* the chunks are used up: the summary is returned
BatchReturns ==
    /\ pc = "batch_loop"
    /\ idx * BATCH_SIZE >= Len(params.pending_transfers)
    /\ ret' = Some(Ok([results |-> results, successful_count |-> successful_count,
                       failed_count |-> failed_count]))
    /\ pc' = "returned"
    /\ UNCHANGED <<params, restVars, tokenVars, clockVars, idp_round_trips>>

BatchNext ==
    \/ BatchFails
    \/ BatchAuthAnswers
    \/ BatchFetchAnswers
    \/ BatchContextAnswers
    \/ BatchSubmit
    \/ BatchLedgerAnswers
    \/ BatchReturns

SpecBatch == BatchInit /\ [][BatchNext]_vars

\* the contract ids the j-th submission carries, in order
SubmittedIds(j) ==
    [k \in 1..Len(submissions[j].request.commands) |->
        submissions[j].request.commands[k].contract_id]

\* C20: the j-th submission (counted from 0) carries the commands of items
\* 5j .. min(5j + 4, n - 1) in input order, one command per item; a call that
\* has got its n pending items and its context and has returned has made
\* exactly ceil(n / 5) submissions, none for n = 0, so that every item is in
\* exactly one of them; 12 items go out as 5, 5 and 2.
C20_ItemsGoOutInChunksOfFive ==
    LET items == params.pending_transfers
        n == Len(items)
    IN  /\ \A j \in 1..Len(submissions) :
              /\ submissions[j].batch_idx = j - 1
              /\ SubmittedIds(j) =
                    [k \in 1..(IF 5 * j <= n THEN 5 ELSE n - 5 * (j - 1)) |->
                        items[5 * (j - 1) + k]]
        /\ 5 * Len(submissions) < n + 5
        /\ ReturnedOk =>
              /\ 5 * Len(submissions) >= n
              /\ \A i \in 1..n :
                    Cardinality({<<j, k>> \in (1..Len(submissions)) \X (1..5) :
                                    /\ k <= Len(SubmittedIds(j))
                                    /\ SubmittedIds(j)[k] = items[i]}) = 1
              /\ n = 12 => [j \in 1..3 |-> Len(SubmittedIds(j))] = <<5, 5, 2>>
              /\ n = 0 => submissions = <<>>

\* C20 witness: a call over 12 items has returned after submissions of 5, 5
\* and 2 commands, the second of which the ledger refused
C20_Witness ==
    /\ ReturnedOk
    /\ Len(params.pending_transfers) = 12
    /\ Len(submissions) = 3
    /\ Len(SubmittedIds(1)) = 5 /\ Len(SubmittedIds(2)) = 5 /\ Len(SubmittedIds(3)) = 2
    /\ ret.v.v.results[5].success
    /\ ~ret.v.v.results[6].success
    /\ ret.v.v.results[11].success

\* C21: in accept_all and withdraw_all the results are those of the items in
\* input order, chunk after chunk; every item of a chunk the ledger accepted
\* is recorded as successful with no error, every item of a chunk it refused
\* as failed with the error of that chunk's submission; a refused chunk does
\* not stop the later ones (a returned call has a result for every item);
\* successful_count + failed_count is the number of results, which on return
\* is the number of items.
C21_BatchOutcomeMarksEveryItem ==
    LET items == params.pending_transfers
        n == Len(items)
    IN  /\ Len(iterations) = idx
        /\ Len(results) = (IF 5 * idx <= n THEN 5 * idx ELSE n)
        /\ \A i \in 1..Len(results) :
              LET answer == iterations[((i - 1) \div 5) + 1].answer
              IN  /\ results[i].contract_id = items[i]
                  /\ results[i].success = answer.ok
                  /\ answer.ok => results[i].error = None
                  /\ ~answer.ok => results[i].error = Some(answer.err)
        /\ successful_count = Cardinality({i \in 1..Len(results) : results[i].success})
        /\ failed_count = Cardinality({i \in 1..Len(results) : ~results[i].success})
        /\ successful_count + failed_count = Len(results)
        /\ ReturnedOk =>
              /\ Len(ret.v.v.results) = n
              /\ ret.v.v.results = results
              /\ ret.v.v.successful_count + ret.v.v.failed_count = n

\* C21 witness: 12 items, the second chunk refused and the third accepted
\* after it: five successes, five failures with the error, two successes
C21_Witness ==
    /\ ReturnedOk
    /\ Len(params.pending_transfers) = 12
    /\ iterations[1].answer.ok /\ ~iterations[2].answer.ok /\ iterations[3].answer.ok
    /\ \A i \in 1..12 : ret.v.v.results[i].success = (i \notin 6..10)
    /\ \A i \in 6..10 : ret.v.v.results[i].error = Some(iterations[2].answer.err)
    /\ ret.v.v.successful_count = 7 /\ ret.v.v.failed_count = 5

\* C22: accept_all and withdraw_all fetch the choice context at most once per
\* call: exactly once, before the first submission, when the list of pending
\* transfers the call obtained is not empty, never when it is empty; every
\* submission of the call carries the choice context and the disclosed
\* contracts of that one fetch; when the fetch fails the call returns its
\* error, with no result and no submission.
C22_ContextFetchedOnceAndShared ==
    LET n == Len(params.pending_transfers)
    IN  /\ registry_fetches <= 1
        /\ pc \in {"batch_context", "batch_loop", "batch_submit"} => registry_fetches = 1
        /\ ReturnedOk => registry_fetches = (IF n > 0 THEN 1 ELSE 0)
        /\ n = 0 => registry_fetches = 0 /\ submissions = <<>>
        /\ pc = "batch_context" => submissions = <<>> /\ results = <<>>
        /\ submissions # <<>> =>
              /\ registry_fetches = 1
              /\ additional_information.some
              /\ \A j \in 1..Len(submissions) :
                    /\ submissions[j].request.disclosed_contracts =
                          additional_information.v.disclosed_contracts
                    /\ \A k \in 1..Len(submissions[j].request.commands) :
                          submissions[j].request.commands[k].context =
                             additional_information.v.choice_context_data
        /\ (ReturnedErr /\ registry_fetches = 1) =>
              /\ ret.v.err = <<"Accept context request failed">>
              /\ ~additional_information.some
              /\ results = <<>>
              /\ submissions = <<>>

\* C22 witness: a call over 12 items returned after three submissions and one
\* fetch of the context
C22_Witness ==
    /\ ReturnedOk
    /\ Len(params.pending_transfers) = 12
    /\ Len(submissions) = 3
    /\ registry_fetches = 1
    /\ submissions[3].request.commands[2].context =
          additional_information.v.choice_context_data

\* ------------------------------- batch::submit_from_csv and batch_distribute

\* batch_distribute has read its CSV file: with no record submit_from_csv has
\* returned Err and main has ended with it; otherwise distribute::submit has
\* been called with the records, no reference base and no callback, and
\* awaits TokenState::new
CsvInit ==
    /\ \E n \in 0..MaxRecipients :
          params = [recipients |-> [k \in 1..n |->
                                      [receiver |-> RecipientList(1, n)[k].receiver,
                                       amount |-> RecipientList(1, n)[k].amount]],
                    reference_base |-> None,
                    on_transfer_complete |-> FALSE]
    /\ IF params.recipients = <<>>
       THEN /\ pc = "exit_err"
            /\ ret = Some(Err(<<"No recipients found in CSV file">>))
       ELSE /\ pc = "dist_new"
            /\ ret = None
    /\ NoBatchState
    /\ NoToken

\* distribute::submit returned: on Err the "?" of submit_from_csv and that of
\* main pass the error on and the process ends with a failure status; on Ok
\* the counts are logged, submit_from_csv returns Ok(()) and main ends with
\* success
BatchDistributeExits ==
    /\ pc = "returned"
    /\ IF ret.v.ok
       THEN /\ ret' = Some(Ok(<<>>))
            /\ pc' = "exit_ok"
       ELSE /\ ret' = ret
            /\ pc' = "exit_err"
    /\ UNCHANGED <<params, restVars, tokenVars, clockVars, idp_round_trips>>

SpecCsv ==
    /\ CsvInit
    /\ [][\/ DistNewFails
          \/ DistNewAnswers
          \/ DistGetFreshToken
          \/ TokenRefreshAnswers
          \/ TokenRefreshNotActive
          \/ TokenRefreshFails
          \/ TokenPasswordAnswers
          \/ TokenPasswordFails
          \/ DistAuthFails
          \/ DistFetchContracts
          \/ DistContractsFail
          \/ DistContractsAnswer
          \/ FetchContext
          \/ RegistryFails
          \/ RegistryAnswers
          \/ ReturnOutcome
          \/ EmptyPool
          \/ TokenStillValid
          \/ StartRefresh
          \/ RefreshAnswers
          \/ RefreshNotActive
          \/ RefreshFails
          \/ PasswordAnswers
          \/ PasswordFails
          \/ AuthPanics
          \/ LedgerAccepts
          \/ LedgerRejects
          \/ Tick
          \/ BatchDistributeExits]_vars

\* C23: a batch tool whose batch had a failed item ends with an error; for
\* batch_distribute: the process does not end with success after a batch with
\* failed_count > 0.
C23_FailedItemsGiveFailureExit ==
    pc = "exit_ok" => failed_count = 0

\* ------------------------------------------------------------ split::submit

\* most amounts one call of split::submit is asked to split off
MaxAmounts == 3

\* split::submit has been called: output_holding_cids (kept in results) is
\* empty and current_holdings is params.input_holding_cids
SplitInit ==
    /\ params \in {[amounts |-> [k \in 1..n |-> <<"amount", k>>],
                    input_holding_cids |-> h] :
                      n \in 0..MaxAmounts, h \in HoldingLists}
    /\ pc = "split_loop"
    /\ ret = None
    /\ additional_information = None
    /\ idx = 0
    /\ current_holding_cids = params.input_holding_cids
    /\ results = <<>>
    /\ successful_count = 0
    /\ failed_count = 0
    /\ pending = None
    /\ observed = <<>>
    /\ callbacks_completed = 0
    /\ registry_fetches = 0
    /\ iterations = <<>>
    /\ submissions = <<>>
    /\ in_flight = <<>>
    /\ consumed = {}
    /\ next_cid = Len(params.input_holding_cids) + 1
    /\ NoToken

\* split_once up to its first await: the self-transfer of the next amount is
\* built on current_holdings and registry::transfer_factory::get is called
SplitOnce ==
    /\ pc = "split_loop"
    /\ idx < Len(params.amounts)
    /\ pending' = Some([amount |-> params.amounts[idx + 1],
                        input_holding_cids |-> Some(current_holding_cids)])
    /\ registry_fetches' = registry_fetches + 1
    /\ pc' = "split_registry"
    /\ UNCHANGED <<params, ret, additional_information, loopVars, observed,
                   callbacks_completed, iterations, ledgerVars, tokenVars,
                   clockVars, idp_round_trips>>

\* mutant of SplitRegistryAnswers: every split is submitted on the caller's
\* input holdings
SplitRegistryAnswersInitialInputs ==
    /\ pc = "split_registry"
    /\ LET req == [transfer |-> [pending.v EXCEPT !.input_holding_cids =
                                    Some(params.input_holding_cids)],
                   context |-> FetchedContext]
       IN  /\ submissions' = Append(submissions, req)
           /\ in_flight' = Append(in_flight, req)
    /\ pc' = "split_ledger"
    /\ UNCHANGED <<params, ret, additional_information, loopVars, callbackVars,
                   registry_fetches, iterations, consumed, next_cid, tokenVars,
                   clockVars, idp_round_trips>>

\* the registry answered: the exercise command is built from the answer and
\* the transfer, and submitted
SplitRegistryAnswers ==
    /\ pc = "split_registry"
    /\ LET req == [transfer |-> pending.v, context |-> FetchedContext]
       IN  /\ submissions' = Append(submissions, req)
           /\ in_flight' = Append(in_flight, req)
    /\ pc' = "split_ledger"
    /\ UNCHANGED <<params, ret, additional_information, loopVars, callbackVars,
                   registry_fetches, iterations, consumed, next_cid, tokenVars,
                   clockVars, idp_round_trips>>

\* the "?" of split_once, passed on by the "?" of submit: the registry call
\* failed, the ledger refused the transfer or its answer has no exercise
\* result with an output holding and a change array
SplitOnceFails ==
    /\ \/ /\ pc = "split_registry"
          /\ ret' = Some(Err(RegistryFailedMsg))
          /\ UNCHANGED in_flight
       \/ /\ pc = "split_ledger"
          /\ \E e \in LedgerErrors \cup {<<"Failed to find ExercisedTreeEvent">>} :
                ret' = Some(Err(e))
          /\ in_flight' = Tail(in_flight)
    /\ pc' = "returned"
    /\ UNCHANGED <<params, additional_information, loopVars, callbackVars,
                   registry_fetches, iterations, submissions, consumed, next_cid,
                   tokenVars, clockVars, idp_round_trips>>

\* mutant of SplitLedgerAnswers: an empty change list after the last amount is
\* let through
SplitLedgerAnswersLenientAtEnd ==
    /\ pc = "split_ledger"
    /\ SeqToSet(in_flight[1].transfer.input_holding_cids.v) \cap consumed = {}
    /\ \E sender_change \in
             {[k \in 1..n |-> JStr(next_cid + k)] : n \in 0..MaxChange}
             \cup {<<JNum(next_cid + 1)>>} :
          LET output_cid == next_cid
              change_cids == FilterMapStr(sender_change)
          IN  /\ results' = Append(results, output_cid)
              /\ current_holding_cids' = change_cids
              /\ iterations' = Append(iterations,
                                      [output |-> output_cid, change |-> change_cids])
              /\ next_cid' = next_cid + 1 + Len(sender_change)
              /\ IF change_cids = <<>> /\ idx + 1 < Len(params.amounts)
                 THEN /\ ret' = Some(Err(<<"Insufficient funds for split">>))
                      /\ pc' = "returned"
                 ELSE /\ ret' = ret
                      /\ pc' = "split_loop"
    /\ consumed' = consumed \cup SeqToSet(in_flight[1].transfer.input_holding_cids.v)
    /\ in_flight' = Tail(in_flight)
    /\ idx' = idx + 1
    /\ pending' = None
    /\ UNCHANGED <<params, additional_information, successful_count, failed_count,
                   observed, callbacks_completed, registry_fetches, submissions,
                   tokenVars, clockVars, idp_round_trips>>

\* the ledger accepted the transfer, archiving its inputs and creating the
\* output holding and the change holdings; split_once returns the first
\* receiverHoldingCids and the strings of senderChangeCids; submit pushes the
\* output, takes the change as current_holdings and gives up when it is empty
SplitLedgerAnswers ==
    /\ pc = "split_ledger"
    /\ SeqToSet(in_flight[1].transfer.input_holding_cids.v) \cap consumed = {}
    /\ \E sender_change \in
             {[k \in 1..n |-> JStr(next_cid + k)] : n \in 0..MaxChange}
             \cup {<<JNum(next_cid + 1)>>} :
          LET output_cid == next_cid
              change_cids == FilterMapStr(sender_change)
          IN  /\ results' = Append(results, output_cid)
              /\ current_holding_cids' = change_cids
              /\ iterations' = Append(iterations,
                                      [output |-> output_cid, change |-> change_cids])
              /\ next_cid' = next_cid + 1 + Len(sender_change)
              /\ IF change_cids = <<>>
                 THEN /\ ret' = Some(Err(<<"Insufficient funds for split">>))
                      /\ pc' = "returned"
                 ELSE /\ ret' = ret
                      /\ pc' = "split_loop"
    /\ consumed' = consumed \cup SeqToSet(in_flight[1].transfer.input_holding_cids.v)
    /\ in_flight' = Tail(in_flight)
    /\ idx' = idx + 1
    /\ pending' = None
    /\ UNCHANGED <<params, additional_information, successful_count, failed_count,
                   observed, callbacks_completed, registry_fetches, submissions,
                   tokenVars, clockVars, idp_round_trips>>

\* the amounts are used up: the outputs and the holdings left are returned
SplitReturns ==
    /\ pc = "split_loop"
    /\ idx = Len(params.amounts)
    /\ ret' = Some(Ok([output_holding_cids |-> results,
                       change_holding_cids |-> current_holding_cids]))
    /\ pc' = "returned"
    /\ UNCHANGED <<params, restVars, tokenVars, clockVars, idp_round_trips>>

SpecSplit ==
    /\ SplitInit
    /\ [][\/ SplitOnce
          \/ SplitRegistryAnswers
          \/ SplitOnceFails
          \/ SplitLedgerAnswers
          \/ SplitReturns]_vars

\* C24 as stated: the k-th split is submitted on the change of the one before
\* it (the first on the caller's input holdings), and a call that returns Ok
\* returns one output per amount, in order, and a non-empty change list, that
\* of the last split.
C24_SplitChainsAndReturnsChange ==
    /\ \A j \in 1..Len(submissions) :
          /\ submissions[j].transfer.amount = params.amounts[j]
          /\ submissions[j].transfer.input_holding_cids =
                Some(IF j = 1 THEN params.input_holding_cids
                     ELSE iterations[j - 1].change)
    /\ ReturnedOk =>
          /\ ret.v.v.output_holding_cids =
                [k \in 1..Len(params.amounts) |-> iterations[k].output]
          /\ ret.v.v.change_holding_cids # <<>>
          /\ iterations # <<>> =>
                ret.v.v.change_holding_cids = iterations[Len(iterations)].change

\* C24 amended: the same, the change list being non-empty and that of the
\* last split when at least one amount was asked for; with no amount the
\* call returns at once, with no output and the caller's input holdings,
\* empty or not, as the change.
C24_SplitChainsAndReturnsChangeIfAny ==
    /\ \A j \in 1..Len(submissions) :
          /\ submissions[j].transfer.amount = params.amounts[j]
          /\ submissions[j].transfer.input_holding_cids =
                Some(IF j = 1 THEN params.input_holding_cids
                     ELSE iterations[j - 1].change)
    /\ ReturnedOk =>
          /\ Len(submissions) = Len(params.amounts)
          /\ ret.v.v.output_holding_cids =
                [k \in 1..Len(params.amounts) |-> iterations[k].output]
          /\ IF params.amounts = <<>>
             THEN ret.v.v.change_holding_cids = params.input_holding_cids
             ELSE /\ ret.v.v.change_holding_cids # <<>>
                  /\ ret.v.v.change_holding_cids = iterations[Len(iterations)].change

\* C24 witness: three amounts were split off one after the other and the call
\* returned the three outputs and the change of the third split
C24_Witness ==
    /\ ReturnedOk
    /\ Len(params.amounts) = 3
    /\ Len(ret.v.v.output_holding_cids) = 3
    /\ submissions[3].transfer.input_holding_cids = Some(iterations[2].change)
    /\ ret.v.v.change_holding_cids = iterations[3].change

\* ------------------------------------------ consolidate::check_and_consolidate

\* largest threshold a caller passes
MaxThreshold == 3
\* most UTXOs the party holds when the call is made
MaxUtxos == 3

\* check_and_consolidate has been called and get_utxo_count awaits
\* active_contracts::get; iterations logs the requests for the holdings
ConsInit ==
    /\ params \in {[threshold |-> t, holdings |-> [k \in 1..n |-> k]] :
                      t \in 0..MaxThreshold, n \in 0..MaxUtxos}
    /\ pc = "cons_count"
    /\ ret = None
    /\ additional_information = None
    /\ idx = 0
    /\ current_holding_cids = <<>>
    /\ results = <<>>
    /\ successful_count = 0
    /\ failed_count = 0
    /\ pending = None
    /\ observed = <<>>
    /\ callbacks_completed = 0
    /\ registry_fetches = 0
    /\ iterations = <<"get_utxo_count">>
    /\ submissions = <<>>
    /\ in_flight = <<>>
    /\ consumed = {}
    /\ next_cid = Len(params.holdings) + 1
    /\ NoToken

\* check_and_consolidate returns r
ConsReturns(r) ==
    /\ ret' = Some(r)
    /\ pc' = "returned"
    /\ UNCHANGED <<params, additional_information, idx, results, successful_count,
                   failed_count, observed, callbacks_completed, tokenVars,
                   clockVars, idp_round_trips>>

\* a "?": a request for the holdings, the registry call or the submission
\* failed, or the total of the amounts read is zero
ConsFails ==
    /\ pc \in {"cons_count", "cons_holdings", "cons_amounts", "cons_registry",
               "cons_ledger"}
    /\ ConsReturns(Err(IF pc = "cons_registry" THEN RegistryFailedMsg
                       ELSE IF pc = "cons_ledger"
                            THEN CHOOSE e \in LedgerErrors : TRUE
                            ELSE <<"Failed to get active contracts">>))
    /\ in_flight' = <<>>
    /\ UNCHANGED <<pending, current_holding_cids, registry_fetches, iterations,
                   submissions, consumed, next_cid>>

\* mutant of ConsCountAnswers: a count equal to the threshold does not
\* consolidate
ConsCountAnswersAboveOnly ==
    /\ pc = "cons_count"
    /\ LET utxo_count == Len(params.holdings)
       IN  /\ pending' = Some([utxo_count |-> utxo_count])
           /\ IF utxo_count <= params.threshold
              THEN /\ ConsReturns(Ok([consolidated |-> FALSE, holding_cids |-> <<>>,
                                      utxos_before |-> utxo_count,
                                      utxos_after |-> utxo_count]))
                   /\ UNCHANGED iterations
              ELSE /\ iterations' = Append(iterations, "consolidate_utxos")
                   /\ pc' = "cons_holdings"
                   /\ UNCHANGED <<params, ret, additional_information, idx, results,
                                  successful_count, failed_count, observed,
                                  callbacks_completed, tokenVars, clockVars,
                                  idp_round_trips>>
    /\ UNCHANGED <<current_holding_cids, registry_fetches, submissions, ledgerVars>>

\* lines 319-350: the count arrived; below the threshold the call returns,
\* otherwise consolidate_utxos is called with input_holding_cids None and
\* asks for the holdings
ConsCountAnswers ==
    /\ pc = "cons_count"
    /\ LET utxo_count == Len(params.holdings)
       IN  /\ pending' = Some([utxo_count |-> utxo_count])
           /\ IF utxo_count < params.threshold
              THEN /\ ConsReturns(Ok([consolidated |-> FALSE, holding_cids |-> <<>>,
                                      utxos_before |-> utxo_count,
                                      utxos_after |-> utxo_count]))
                   /\ UNCHANGED iterations
              ELSE /\ iterations' = Append(iterations, "consolidate_utxos")
                   /\ pc' = "cons_holdings"
                   /\ UNCHANGED <<params, ret, additional_information, idx, results,
                                  successful_count, failed_count, observed,
                                  callbacks_completed, tokenVars, clockVars,
                                  idp_round_trips>>
    /\ UNCHANGED <<current_holding_cids, registry_fetches, submissions, ledgerVars>>

\* lines 117-146 and 352-365: the holdings arrived; none is an error, a single
\* one is returned as it is and check_and_consolidate wraps it in its result,
\* more are kept as input_holding_cids and the holdings are asked for again,
\* for their amounts
ConsHoldingsAnswer ==
    /\ pc = "cons_holdings"
    /\ LET input_holding_cids == params.holdings
       IN  IF input_holding_cids = <<>>
           THEN /\ ConsReturns(Err(<<"No holdings to consolidate">>))
                /\ UNCHANGED <<current_holding_cids, iterations>>
           ELSE IF Len(input_holding_cids) = 1
           THEN /\ ConsReturns(Ok([consolidated |-> TRUE,
                                   holding_cids |-> input_holding_cids,
                                   utxos_before |-> pending.v.utxo_count,
                                   utxos_after |-> Len(input_holding_cids)]))
                /\ UNCHANGED <<current_holding_cids, iterations>>
           ELSE /\ current_holding_cids' = input_holding_cids
                /\ iterations' = Append(iterations, "total_amount")
                /\ pc' = "cons_amounts"
                /\ UNCHANGED <<params, ret, additional_information, idx, results,
                               successful_count, failed_count, observed,
                               callbacks_completed, tokenVars, clockVars,
                               idp_round_trips>>
    /\ UNCHANGED <<pending, registry_fetches, submissions, ledgerVars>>

\* lines 148-214: the amounts add up to more than zero, the self-transfer is
\* built on input_holding_cids and registry::transfer_factory::get is called
ConsAmountsAnswer ==
    /\ pc = "cons_amounts"
    /\ registry_fetches' = registry_fetches + 1
    /\ pc' = "cons_registry"
    /\ UNCHANGED <<params, ret, additional_information, loopVars, callbackVars,
                   iterations, ledgerVars, tokenVars, clockVars, idp_round_trips>>

\* lines 216-252: the registry answered and the transfer is submitted
ConsRegistryAnswers ==
    /\ pc = "cons_registry"
    /\ LET req == [transfer |-> [input_holding_cids |-> Some(current_holding_cids)],
                   context |-> FetchedContext]
       IN  /\ submissions' = Append(submissions, req)
           /\ in_flight' = <<req>>
    /\ pc' = "cons_ledger"
    /\ UNCHANGED <<params, ret, additional_information, loopVars, callbackVars,
                   registry_fetches, iterations, consumed, next_cid, tokenVars,
                   clockVars, idp_round_trips>>

\* lines 254-289 and 352-365: the ledger accepted the transfer, archiving its
\* inputs; the strings of receiverHoldingCids are the result, none is an error
ConsLedgerAnswers ==
    /\ pc = "cons_ledger"
    /\ \E receiver_cids \in {<<>>, <<JStr(next_cid)>>, <<JNum(next_cid)>>} :
          LET result_cids == FilterMapStr(receiver_cids)
          IN  IF result_cids = <<>>
              THEN ConsReturns(Err(<<"Failed to extract result holding CIDs from consolidation response">>))
              ELSE ConsReturns(Ok([consolidated |-> TRUE,
                                   holding_cids |-> result_cids,
                                   utxos_before |-> pending.v.utxo_count,
                                   utxos_after |-> Len(result_cids)]))
    /\ consumed' = consumed \cup SeqToSet(current_holding_cids)
    /\ next_cid' = next_cid + 1
    /\ in_flight' = <<>>
    /\ UNCHANGED <<pending, current_holding_cids, registry_fetches, iterations,
                   submissions>>

SpecConsolidate ==
    /\ ConsInit
    /\ [][\/ ConsFails
          \/ ConsCountAnswers
          \/ ConsHoldingsAnswer
          \/ ConsAmountsAnswer
          \/ ConsRegistryAnswers
          \/ ConsLedgerAnswers]_vars

C26_ConsolidatedMeansMergeAccepted ==
    (ReturnedOk /\ ret.v.v.consolidated) =>
        /\ Len(submissions) = 1
        /\ consumed = SeqToSet(params.holdings)

\* ------------------------------------- the parallel delete tool (its main)

\* "const BATCH_SIZE: usize = 50" of delete_executed_transfers.rs
DELETE_BATCH_SIZE == 50
\* "const DEFAULT_NUM_THREADS: usize = 8"
DEFAULT_NUM_THREADS == 8
\* most contract ids of a small run, and the size of a run whose worker needs
\* a second batch
MaxContracts == 3
ManyContracts == 51
\* largest NUM_THREADS and MAX_CONTRACTS set in the environment
MaxThreads == 3

\* main has read its environment and has the contract ids, from the CSV file
\* or from the ledger: NUM_THREADS is any usize or, unset, the default;
\* MAX_CONTRACTS is unset or any usize.  The long list is run on one or two
\* tasks only.
DeleteInit ==
    /\ params \in UNION {
          {[transfer_contract_ids |-> [k \in 1..n |-> k],
            num_threads |-> t, max_contracts |-> m] :
              t \in IF n = ManyContracts THEN 1..2
                    ELSE (0..MaxThreads) \cup {DEFAULT_NUM_THREADS},
              m \in {None} \cup {Some(k) : k \in {0, MaxThreads}}} :
          n \in (0..MaxContracts) \cup {ManyContracts}}
    /\ pc = "delete_start"
    /\ ret = None
    /\ NoBatchState
    /\ NoToken

\* lines 167-213: nothing to do without ids; the list is cut to MAX_CONTRACTS
\* and split into chunks of ceil(total / num_threads) ids, one task is spawned
\* per chunk.  The division panics for num_threads = 0 and chunks() panics for
\* a chunk size of 0.  iterations holds the spawned tasks' own state.
DeleteSpawn ==
    /\ pc = "delete_start"
    /\ LET all_ids == params.transfer_contract_ids
           ids == IF params.max_contracts.some
                     /\ Len(all_ids) > params.max_contracts.v
                  THEN SubSeq(all_ids, 1, params.max_contracts.v)
                  ELSE all_ids
           total == Len(ids)
           num_threads == params.num_threads
           chunk_size == (total + num_threads - 1) \div num_threads
           actual_threads == (total + chunk_size - 1) \div chunk_size
       IN  IF all_ids = <<>>
           THEN /\ pc' = "exit_ok"
                /\ UNCHANGED <<pending, iterations>>
           ELSE IF num_threads = 0 \/ chunk_size = 0
           THEN /\ pc' = "panicked"
                /\ UNCHANGED <<pending, iterations>>
           ELSE /\ pending' = Some(ids)
                /\ iterations' =
                      [w \in 1..actual_threads |->
                          [contract_ids |->
                              SubSeq(ids, (w - 1) * chunk_size + 1,
                                     IF w * chunk_size < total
                                     THEN w * chunk_size ELSE total),
                           batch_idx |-> 0, awaiting |-> FALSE, done |-> FALSE,
                           successful_count |-> 0, failed_count |-> 0]]
                /\ pc' = "delete_join"
    /\ UNCHANGED <<params, ret, additional_information, loopVars, observed,
                   callbacks_completed, registry_fetches, ledgerVars, tokenVars,
                   clockVars, idp_round_trips>>

\* process_chunk, one step of one task: the next batch of its ids is
\* submitted; the ledger answers and the batch is counted as successful or
\* failed; after the last batch the task locks the result list and pushes
\* its ThreadResult
ProcessChunk ==
    /\ pc = "delete_join"
    /\ \E w \in 1..Len(iterations) :
          LET task == iterations[w]
              start == task.batch_idx * DELETE_BATCH_SIZE
              n == Len(task.contract_ids)
              batch == SubSeq(task.contract_ids, start + 1,
                              IF start + DELETE_BATCH_SIZE < n
                              THEN start + DELETE_BATCH_SIZE ELSE n)
          IN  /\ ~task.done
              /\ \/ /\ ~task.awaiting /\ start < n
                    /\ submissions' = Append(submissions,
                                             [thread_num |-> w,
                                              executedTransferCids |-> batch])
                    /\ iterations' = [iterations EXCEPT ![w].awaiting = TRUE]
                    /\ UNCHANGED results
                 \/ /\ task.awaiting
                    /\ \E ok \in BOOLEAN :
                          iterations' =
                             [iterations EXCEPT
                                ![w].awaiting = FALSE,
                                ![w].batch_idx = @ + 1,
                                ![w].successful_count =
                                    IF ok THEN @ + Len(batch) ELSE @,
                                ![w].failed_count =
                                    IF ok THEN @ ELSE @ + Len(batch)]
                    /\ UNCHANGED <<submissions, results>>
                 \/ /\ ~task.awaiting /\ start >= n
                    /\ results' = Append(results,
                                         [successful_count |-> task.successful_count,
                                          failed_count |-> task.failed_count])
                    /\ iterations' = [iterations EXCEPT ![w].done = TRUE]
                    /\ UNCHANGED submissions
    /\ UNCHANGED <<params, pc, ret, additional_information, idx,
                   current_holding_cids, successful_count, failed_count,
                   callbackVars, registry_fetches, in_flight, consumed, next_cid,
                   tokenVars, clockVars, idp_round_trips>>

\* mutant of DeleteExits: the totals are taken when the first task is done
DeleteExitsAfterFirstTask ==
    /\ pc = "delete_join"
    /\ \E w \in 1..Len(iterations) : iterations[w].done
    /\ LET Sum[k \in 0..Len(results)] ==
               IF k = 0 THEN [s |-> 0, f |-> 0]
               ELSE [s |-> Sum[k - 1].s + results[k].successful_count,
                     f |-> Sum[k - 1].f + results[k].failed_count]
           total_successful == Sum[Len(results)].s
           total_failed == Sum[Len(results)].f
       IN  /\ successful_count' = total_successful
           /\ failed_count' = total_failed
           /\ pc' = IF total_failed > 0 THEN "exit_err" ELSE "exit_ok"
    /\ UNCHANGED <<params, ret, additional_information, idx, current_holding_cids,
                   results, callbackVars, registry_fetches, iterations, ledgerVars,
                   tokenVars, clockVars, idp_round_trips>>

\* lines 215-229: every task has been joined; the counts are added up and
\* the process ends with an error when an id failed
DeleteExits ==
    /\ pc = "delete_join"
    /\ \A w \in 1..Len(iterations) : iterations[w].done
    /\ LET Sum[k \in 0..Len(results)] ==
               IF k = 0 THEN [s |-> 0, f |-> 0]
               ELSE [s |-> Sum[k - 1].s + results[k].successful_count,
                     f |-> Sum[k - 1].f + results[k].failed_count]
           total_successful == Sum[Len(results)].s
           total_failed == Sum[Len(results)].f
       IN  /\ successful_count' = total_successful
           /\ failed_count' = total_failed
           /\ pc' = IF total_failed > 0 THEN "exit_err" ELSE "exit_ok"
    /\ UNCHANGED <<params, ret, additional_information, idx, current_holding_cids,
                   results, callbackVars, registry_fetches, iterations, ledgerVars,
                   tokenVars, clockVars, idp_round_trips>>

SpecDelete ==
    /\ DeleteInit
    /\ [][DeleteSpawn \/ ProcessChunk \/ DeleteExits]_vars

\* C27: for every NUM_THREADS value the tool takes, the ids are partitioned
\* among the tasks: the tool does not stop before spawning them, the tasks'
\* slices are contiguous and, put end to end, are the list of ids, there are
\* at most NUM_THREADS tasks, and no id is submitted in two batches.
C27_IdsPartitionedAmongWorkers ==
    /\ pc # "panicked"
    /\ pc \in {"delete_join", "exit_ok", "exit_err"} /\ pending.some =>
          /\ Len(iterations) <= params.num_threads
          /\ \A i \in 1..Len(pending.v) :
                Cardinality({w \in 1..Len(iterations) :
                                \E k \in 1..Len(iterations[w].contract_ids) :
                                    iterations[w].contract_ids[k] = pending.v[i]}) = 1
          /\ \A i \in 1..Len(pending.v) :
                Cardinality({j \in 1..Len(submissions) :
                                \E k \in 1..Len(submissions[j].executedTransferCids) :
                                    submissions[j].executedTransferCids[k] = pending.v[i]}) <= 1

\* C28: once an iteration of submit_sequential_chained starts on an empty
\* pool, every later iteration starts on an empty pool too; each of these
\* iterations makes no credential check and no ledger submission and records
\* a failed result with the no-holdings error, and the call still returns a
\* result for every recipient.
C28_EmptyPoolStaysEmpty ==
    /\ \A k \in 1..Len(iterations) :
          iterations[k].pool = <<>> =>
             \A m \in k..Len(iterations) :
                /\ iterations[m].pool = <<>>
                /\ iterations[m].cred = "none"
                /\ ~iterations[m].needs_refresh
                /\ iterations[m].transfer_index = m - 1
                /\ \A j \in 1..Len(submissions) :
                      submissions[j].transfer_index # m - 1
                /\ m <= Len(results) =>
                      /\ ~results[m].success
                      /\ results[m].error = Some(NoUtxosMsg)
                      /\ results[m].receiver = params.recipients[m].receiver
    /\ (ReturnedOk /\ \E k \in 1..Len(iterations) : iterations[k].pool = <<>>) =>
          /\ Len(iterations) = Len(params.recipients)
          /\ Len(ret.v.v.results) = Len(params.recipients)

\* C28 witness: the first transfer succeeded and left no change, and the two
\* recipients after it failed on the empty pool
C28_Witness ==
    /\ ReturnedOk
    /\ Len(params.recipients) = 3
    /\ iterations[1].pool # <<>>
    /\ results[1].success
    /\ iterations[2].pool = <<>>
    /\ results[2].error = Some(NoUtxosMsg)
    /\ results[3].error = Some(NoUtxosMsg)
    /\ Len(submissions) = 1

\* C29: when get_fresh_token fails in the iteration of recipient i, no
\* transfer is submitted for that recipient, its result is a failure whose
\* error is the credential error, with no reference and no response, the pool
\* stays as the iteration found it, and when there is a recipient i+1 the
\* loop goes on to it and calls get_fresh_token again.
C29_CredentialFailureSkipsOneItem ==
    \A k \in 1..Len(iterations) :
        iterations[k].cred = "err" =>
           /\ iterations[k].pool # <<>>
           /\ \A j \in 1..Len(submissions) : submissions[j].transfer_index # k - 1
           /\ k <= Len(results) =>
                 /\ ~results[k].success
                 /\ results[k].transfer_index = k - 1
                 /\ results[k].error.some
                 /\ results[k].error.v[1] = "Failed to get fresh token: "
                 /\ ~results[k].raw_response.some
                 /\ ~results[k].reference.some
           /\ k = Len(iterations) => current_holding_cids = iterations[k].pool
           /\ k < Len(iterations) =>
                 /\ iterations[k + 1].pool = iterations[k].pool
                 /\ iterations[k + 1].transfer_index = k
                 /\ iterations[k + 1].cred # "none"
           /\ (pc = "returned" /\ k < Len(params.recipients)) => k < Len(iterations)

\* C29 witness: the credential check of the first recipient failed, that of
\* the second was made on the same pool and its transfer was submitted
C29_Witness ==
    /\ Len(iterations) >= 2
    /\ iterations[1].cred = "err"
    /\ iterations[2].cred = "ok"
    /\ iterations[2].needs_refresh
    /\ Len(submissions) = 1
    /\ submissions[1].transfer_index = 1
    /\ submissions[1].request.transfer.input_holding_cids =
          Some(params.initial_holding_cids)

\* the time at which the access token held at the start of the k-th call
\* really expires: its lifetime counted from the answer that brought it, the
\* login of TokenState::new (at time 0) or the latest exchange stored
RealExpiry(k) ==
    LET stored == {j \in 1..(k - 1) : calls[j].auth.some}
        last == CHOOSE j \in stored : \A i \in stored : i <= j
    IN  IF stored = {}
        THEN CHOOSE e \in Lifetimes :
                calls[1].before = TokenStateNew(AuthResponse(0, e), 0)
        ELSE calls[last].done_at + calls[last].auth.v.expires_in

\* C30: a get_fresh_token call contacts the identity provider only when the
\* access token it holds is within 60 seconds of its real expiry, or past it;
\* so the first call, made right after TokenState::new got a token with a
\* lifetime above 60 seconds, returns that token with no round trip.
C30_RefreshOnlyNearRealExpiry ==
    \A k \in 1..Len(calls) :
        calls[k].needs_refresh => calls[k].at + SafetyMarginSecs >= RealExpiry(k)

\* ------------------------------------------- failed and undue calls

\* C31: a get_fresh_token call that returns an error leaves the access token,
\* the refresh token and expires_at exactly as they were before the call, so
\* the next call finds the refresh due and attempts it again; a call that
\* returns without a refresh being due asks the identity provider nothing and
\* leaves the three fields unchanged as well
C31_FailedOrUndueCallKeepsState ==
    \A k \in 1..Len(calls) :
       LET c == calls[k] IN
       /\ c.outcome = "err" =>
             /\ c.needs_refresh
             /\ c.after = c.before
             /\ (k = Len(calls) /\ pc = "idle") => token_state = c.before
             /\ k < Len(calls) =>
                   /\ calls[k + 1].before = c.before
                   /\ calls[k + 1].needs_refresh
                   /\ calls[k + 1].trips >= 1
       /\ (c.outcome = "ok" /\ ~c.needs_refresh) =>
             /\ c.trips = 0
             /\ c.after = c.before
             /\ (k = Len(calls) /\ pc = "idle") => token_state = c.before

\* a call failed in the fallback login, the next call refreshed again and
\* succeeded, and a third call found no refresh due
C31_Witness ==
    /\ Len(calls) = 3
    /\ calls[1].outcome = "err"
    /\ calls[1].trips = 2
    /\ calls[2].needs_refresh
    /\ calls[2].outcome = "ok"
    /\ ~calls[3].needs_refresh
    /\ calls[3].outcome = "ok"

\* ------------------------------------------- the shape of a TransferResult

\* the TransferResult the step under way has just built: handed to the
\* observer if there is one, pushed otherwise
BuiltResult == IF pc' = "callback" THEN pending'.v.result
               ELSE results'[Len(results')]

\* the step under way ends the iteration of one recipient
BuildsResult == \/ pc # "callback" /\ pc' = "callback"
                \/ pc # "callback" /\ Len(results') = Len(results) + 1

\* success = true exactly when error is absent, exactly when both identifiers
\* are present; a kept response goes with a success or a parse failure
WellFormedResult(r) ==
    /\ r.success <=> ~r.error.some
    /\ r.success <=> (r.transfer_offer_cid.some /\ r.update_id.some)
    /\ r.raw_response.some =>
          \/ r.success
          \/ r.error.v[1] = "Failed to parse transfer response: "
    /\ ~r.raw_response.some =>
          r.error.v[1] \in {NoUtxosMsg[1], "Failed to get fresh token: ",
                            "Ledger submission failed: "}

\* C32: every TransferResult of submit_sequential_chained, pushed or handed to
\* the observer, has success = true exactly when error is absent and exactly
\* when transfer_offer_cid and update_id are both present; and whenever a
\* result is built, its raw_response is present exactly when the step is the
\* ledger's success answer for that item (the ledger archived the inputs),
\* absent for the empty-pool, credential and ledger-submission failures
C32_ResultFieldsAgree ==
    /\ [](\A k \in 1..Len(results) : WellFormedResult(results[k]))
    /\ [](\A k \in 1..Len(observed) : WellFormedResult(observed[k]))
    /\ [][BuildsResult =>
             /\ BuiltResult.raw_response.some <=>
                   (pc = "submit" /\ consumed' # consumed)
             /\ BuiltResult.transfer_index = idx]_vars

\* one batch holds a successful result, a parse failure that kept the response
\* and a ledger failure without one
C32_Witness ==
    /\ Len(results) = 3
    /\ results[1].success /\ results[1].raw_response.some
    /\ ~results[2].success /\ results[2].raw_response.some
    /\ ~results[3].success /\ ~results[3].raw_response.some
    /\ results[3].error.v[1] = "Ledger submission failed: "

\* ------------------------------------------- one event behind both values

\* C33: whenever parse_transfer_response returns a triple, its change ids and
\* its instruction id are the senderChangeCids and the transferInstructionCid
\* of one and the same exercised event of the choice TransferFactory_Transfer
\* in the response, also when the response holds several such events or an
\* event with only one of the two fields
C33_BothValuesFromOneEvent ==
    (pc = "returned" /\ ret.v.ok) =>
        \E k \in 1..Len(params.eventsById.v) :
           LET ev == params.eventsById.v[k] IN
           /\ ev.kind = "ExercisedTreeEvent"
           /\ ev.choice = TransferChoice
           /\ ev.senderChangeCids.some
           /\ ret.v.sender_change_cids = FilterMapStr(ev.senderChangeCids.v)
           /\ JIsStr(ev.transferInstructionCid)
           /\ ret.v.transfer_offer_cid = ev.transferInstructionCid.v.v

\* ------------------------------------------- termination of the chain

\* a step of the call itself: a network call or the observer returns, or the
\* task goes on; the clock is no such step
ChainStep ==
    \/ ReturnNoRecipients \/ UseSuppliedContext \/ FetchContext
    \/ RegistryFails \/ RegistryAnswers \/ ReturnOutcome \/ EmptyPool
    \/ TokenStillValid \/ StartRefresh \/ RefreshAnswers \/ RefreshNotActive
    \/ RefreshFails \/ PasswordAnswers \/ PasswordFails \/ AuthPanics
    \/ LedgerAccepts \/ LedgerRejects \/ CallbackReturns

\* submit_sequential_chained where every awaited call and every observer
\* invocation eventually returns and the task is scheduled again afterwards
SpecLive == Init /\ [][Next]_vars /\ WF_vars(ChainStep)

\* ledger submissions and credential checks made for the recipient with index i
SubmissionsFor(i) ==
    Cardinality({k \in 1..Len(submissions) : submissions[k].transfer_index = i})
CredChecksFor(i) ==
    Cardinality({k \in 1..Len(iterations) :
                    /\ iterations[k].transfer_index = i
                    /\ iterations[k].cred # "none"})

\* C34: when every credential exchange, context fetch, ledger submission and
\* observer invocation eventually returns, submit_sequential_chained
\* eventually returns; at every moment it has made at most one ledger
\* submission and at most one credential check for each recipient, and each
\* recipient is taken up by one iteration only (no failed item is retried)
C34_ReturnsAfterBoundedWork ==
    /\ <>(pc = "returned")
    /\ [](\A i \in 0..(MaxRecipients - 1) :
             /\ SubmissionsFor(i) <= 1
             /\ CredChecksFor(i) <= 1
             /\ Cardinality({k \in 1..Len(iterations) :
                                iterations[k].transfer_index = i}) <= 1)
    /\ [](Len(iterations) <= Len(params.recipients))

\* ------------------------------------------- distribute::submit as a whole

\* nothing of a chained batch has happened: no per-item result, no observer
\* invocation, no registry fetch, no ledger submission
NothingDone ==
    /\ results = <<>>
    /\ observed = <<>>
    /\ registry_fetches = 0
    /\ submissions = <<>>
    /\ iterations = <<>>

\* the errors distribute::submit returns before it calls the chain
DistOwnErrors ==
    {<<"Failed to initialize token state: ">> \o e : e \in PasswordErrors}
    \cup {RefreshError(e) : e \in RefreshErrors}
    \cup PasswordErrors
    \cup {<<"Failed to get active contracts">>, <<"No UTXOs available for transfers">>}

\* C35: distribute::submit does nothing of the batch before the chain is
\* called, and when the initial authentication fails, the holdings cannot be
\* fetched or the sender has no unlocked holding it returns an error with no
\* per-item result, no observer invocation, no registry fetch and no ledger
\* submission; otherwise the chain is called with every fetched holding id as
\* its initial pool, and its first iteration works on that pool
C35_FailsWholeOrPassesAllHoldings ==
    /\ pc \in {"dist_new", "idle", "token_refresh", "token_password",
               "dist_contracts"} => NothingDone
    /\ (ReturnedErr /\ ret.v.err \in DistOwnErrors) =>
          /\ NothingDone
          /\ current_holding_cids = <<>>
          /\ \/ token_state = None
             \/ calls[1].outcome = "err"
             \/ calls[1].outcome = "ok" /\ Len(calls) = 1
    /\ pc = "start" =>
          /\ NothingDone
          /\ calls[1].outcome = "ok"
          /\ params.initial_holding_cids # <<>>
          /\ params.initial_holding_cids = [k \in 1..(next_cid - 1) |-> k]
          /\ current_holding_cids = params.initial_holding_cids
          /\ ~params.registry_response.some
    /\ iterations # <<>> => iterations[1].pool = params.initial_holding_cids

\* a call for three recipients with an observer failed as a whole because the
\* sender had no unlocked holding
C35_Witness ==
    /\ ReturnedErr
    /\ ret.v.err = <<"No UTXOs available for transfers">>
    /\ Len(params.recipients) = MaxRecipients
    /\ params.on_transfer_complete
    /\ calls[1].outcome = "ok"

\* ------------------------------------------- batch::submit_from_csv reading

\* most records of a CSV file
MaxRows == 2

Digits == {"0", "1", "5"}

\* what <f64 as FromStr>::from_str accepts among texts without an exponent:
\* an optional sign, then "inf", "infinity" or "nan" in any letter case, or
\* digits with at most one point and at least one digit
ParsesAsF64(text) ==
    LET signed == text # <<>> /\ text[1] \in {"+", "-"}
        body == IF signed THEN Tail(text) ELSE text
        lower == [k \in 1..Len(body) |->
                     CASE body[k] = "N" -> "n"
                       [] body[k] = "A" -> "a"
                       [] body[k] = "I" -> "i"
                       [] body[k] = "F" -> "f"
                       [] OTHER -> body[k]]
        points == {k \in 1..Len(body) : body[k] = "."}
    IN  \/ lower \in {<<"i", "n", "f">>, <<"n", "a", "n">>,
                      <<"i", "n", "f", "i", "n", "i", "t", "y">>}
        \/ /\ \A k \in 1..Len(body) : body[k] \in Digits \cup {"."}
           /\ Cardinality(points) <= 1
           /\ \E k \in 1..Len(body) : body[k] \in Digits

\* the text is a decimal numeral, with or without sign and fraction
DenotesNumber(text) ==
    LET signed == text # <<>> /\ text[1] \in {"+", "-"}
        body == IF signed THEN Tail(text) ELSE text
    IN  /\ \A k \in 1..Len(body) : body[k] \in Digits \cup {"."}
        /\ Cardinality({k \in 1..Len(body) : body[k] = "."}) <= 1
        /\ \E k \in 1..Len(body) : body[k] \in Digits

\* texts of the amount column
AmountTexts == {<<"1", "0">>, <<"1", ".", "5">>, <<"-", "5">>, <<"a", "b", "c">>,
                <<"N", "a", "N">>, <<>>}

\* a CSV file: unreadable (None), or its records in file order; a record
\* deserialises into CsvRecord (receiver, amount) or does not
CsvFiles ==
    LET Rows(k) == {[parses |-> FALSE, receiver |-> Alice, amount |-> <<>>]}
                   \cup {[parses |-> TRUE,
                          receiver |-> IF k = 1 THEN Alice ELSE Bob,
                          amount |-> a] : a \in AmountTexts}
    IN  {None} \cup {Some(<<>>)}
        \cup {Some(<<r>>) : r \in Rows(1)}
        \cup {Some(<<r, s>>) : r \in Rows(1), s \in Rows(2)}

RECURSIVE ReadRecords(_, _)
\* lines 46-60: the loop over reader.deserialize(); the first record that does
\* not deserialise or whose amount does not parse ends the call
ReadRecords(rows, recipients) ==
    IF rows = <<>> THEN Ok(recipients)
    ELSE IF ~Head(rows).parses
    THEN Err(<<"Failed to parse CSV record: ", "deserialize">>)
    ELSE IF ~ParsesAsF64(Head(rows).amount)
    THEN Err(<<"Invalid amount '">> \o Head(rows).amount \o <<"': ", "invalid float literal">>)
    ELSE ReadRecords(Tail(rows),
                     Append(recipients, [receiver |-> Head(rows).receiver,
                                         amount |-> Head(rows).amount]))

\* submit_from_csv has been called with the path of a file and, possibly, a
\* reference base
CsvFileInit ==
    /\ params \in {[csv |-> f, reference_base |-> rb] :
                      f \in CsvFiles, rb \in {None, Some(<<"r", "-", "1">>)}}
    /\ pc = "csv_read"
    /\ ret = None
    /\ NoBatchState
    /\ NoToken

\* lines 36-87: the file is opened and read through; an error ends the call,
\* otherwise distribute::submit is called with the recipients read
ReadCsv ==
    /\ pc = "csv_read"
    /\ LET read == IF ~params.csv.some
                   THEN Err(<<"Failed to read CSV file: ", "No such file">>)
                   ELSE ReadRecords(params.csv.v, <<>>)
           outcome == IF read.ok /\ read.v = <<>>
                      THEN Err(<<"No recipients found in CSV file">>)
                      ELSE read
       IN  IF outcome.ok
           THEN /\ params' = [recipients |-> outcome.v,
                              reference_base |-> params.reference_base,
                              on_transfer_complete |-> FALSE]
                /\ pc' = "dist_new"
                /\ ret' = ret
           ELSE /\ ret' = Some(outcome)
                /\ pc' = "exit_err"
                /\ params' = params
    /\ UNCHANGED <<restVars, tokenVars, clockVars, idp_round_trips>>

SpecCsvFile ==
    /\ CsvFileInit
    /\ [][\/ ReadCsv
          \/ DistNewFails
          \/ DistNewAnswers
          \/ DistGetFreshToken
          \/ TokenRefreshAnswers
          \/ TokenRefreshNotActive
          \/ TokenRefreshFails
          \/ TokenPasswordAnswers
          \/ TokenPasswordFails
          \/ DistAuthFails
          \/ DistFetchContracts
          \/ DistContractsFail
          \/ DistContractsAnswer
          \/ FetchContext
          \/ RegistryFails
          \/ RegistryAnswers
          \/ ReturnOutcome
          \/ EmptyPool
          \/ TokenStillValid
          \/ StartRefresh
          \/ RefreshAnswers
          \/ RefreshNotActive
          \/ RefreshFails
          \/ PasswordAnswers
          \/ PasswordFails
          \/ AuthPanics
          \/ LedgerAccepts
          \/ LedgerRejects
          \/ Tick
          \/ BatchDistributeExits]_vars

\* C36: submit_from_csv validates every row before any transfer: when the file
\* cannot be read, a record does not parse, an amount is not a number or the
\* file has no record, the call returns an error and no authentication,
\* holdings fetch or ledger submission has taken place; otherwise
\* distribute::submit receives the recipients in file order, each amount being
\* the text of the file
C36_RowsValidatedBeforeAnyTransfer ==
    [][pc = "csv_read" =>
          LET f == params.csv
              bad == \/ ~f.some
                     \/ f.v = <<>>
                     \/ \E k \in 1..Len(f.v) :
                           ~f.v[k].parses \/ ~DenotesNumber(f.v[k].amount)
          IN  IF bad
              THEN /\ pc' = "exit_err"
                   /\ ~ret'.v.ok
                   /\ idp_round_trips' = 0
                   /\ calls' = <<>>
                   /\ submissions' = <<>>
                   /\ registry_fetches' = 0
              ELSE /\ pc' = "dist_new"
                   /\ params'.recipients =
                         [k \in 1..Len(f.v) |-> [receiver |-> f.v[k].receiver,
                                                 amount |-> f.v[k].amount]]
                   /\ params'.reference_base = params.reference_base
                   /\ idp_round_trips' = 0]_vars

\* ------------------------------------------- split::submit giving up

\* C37: split::submit stops at the first split that fails or that leaves no
\* change: it returns an error at once, "Insufficient funds for split" when
\* the change is empty (also after the last requested amount), no further
\* split is submitted, and the error carries none of the holdings the
\* committed splits created; with no amount it submits nothing and returns the
\* input holdings as change
C37_SplitStopsAtFirstFailure ==
    /\ \A k \in 1..Len(iterations) :
          iterations[k].change = <<>> =>
             /\ k = Len(iterations)
             /\ ReturnedErr
             /\ ret.v.err = <<"Insufficient funds for split">>
             /\ Len(submissions) = k
    /\ Len(submissions) \in {Len(iterations), Len(iterations) + 1}
    /\ Len(submissions) <= Len(params.amounts)
    /\ ReturnedErr =>
          /\ in_flight = <<>>
          /\ DOMAIN ret.v = {"ok", "err"}
          /\ \/ Len(submissions) = Len(iterations) + 1
             \/ /\ Len(submissions) = Len(iterations)
                /\ registry_fetches = Len(submissions) + 1
             \/ /\ Len(submissions) = Len(iterations)
                /\ iterations[Len(iterations)].change = <<>>
    /\ ReturnedOk =>
          /\ Len(iterations) = Len(params.amounts)
          /\ \A k \in 1..Len(iterations) : iterations[k].change # <<>>
    /\ (pc = "returned" /\ params.amounts = <<>>) =>
          /\ ReturnedOk
          /\ submissions = <<>>
          /\ registry_fetches = 0
          /\ ret.v.v = [output_holding_cids |-> <<>>,
                        change_holding_cids |-> params.input_holding_cids]

\* the last of three splits was committed and left no change: the call
\* returned the error although the ledger holds three new output holdings
C37_Witness ==
    /\ ReturnedErr
    /\ ret.v.err = <<"Insufficient funds for split">>
    /\ Len(params.amounts) = MaxAmounts
    /\ Len(iterations) = MaxAmounts
    /\ Len(results) = MaxAmounts

\* ------------------------------------------- keycloak::updater::DeadlineUpdater

\* most get calls made on one DeadlineUpdater
MaxGets == 3

\* seconds between the construction or a get and the next get: none (an
\* immediate call), one, three
Elapsed == {0, 1, 3}

\* seconds from the call of the update function to the deadline it returns:
\* the 2 seconds of test_updater, and a deadline that is reached at once
UpdateLifetimes == {0, 2}

\* "checked_sub(Duration::from_secs(60))" of DeadlineUpdater::new
UpdaterStartLagSecs == 60

\* DeadlineUpdater::new at time 0: no value, a deadline one minute in the
\* past; the update function counts its invocations in idp_issued
UpdaterInit ==
    /\ token_state = [value |-> None, deadline |-> 0 - UpdaterStartLagSecs]
    /\ now = 0
    /\ ticks = 0
    /\ pc = "idle"
    /\ idp_round_trips = 0
    /\ idp_issued = 0
    /\ calls = <<>>
    /\ NoBatch

\* mutant of UpdaterGet: the update function is invoked by every get
UpdaterGetAlways ==
    /\ Len(calls) < MaxGets
    /\ \E d \in Elapsed, life \in UpdateLifetimes :
          LET t == now + d
              needs_refresh == TRUE
              updated == [value |-> Some(idp_issued + 1), deadline |-> t + life]
              inner == IF needs_refresh THEN updated ELSE token_state
          IN  /\ now' = t
              /\ token_state' = inner
              /\ idp_issued' = IF needs_refresh THEN idp_issued + 1 ELSE idp_issued
              /\ calls' = Append(calls,
                     [at |-> t, before |-> token_state,
                      needs_refresh |-> ~token_state.value.some
                                           \/ t >= token_state.deadline,
                      updates |-> idp_issued' - idp_issued,
                      value |-> IF inner.value.some THEN Ok(inner.value.v)
                                ELSE Err(<<"No value after update">>),
                      after |-> inner])
    /\ UNCHANGED <<ticks, pc, idp_round_trips, chainVars>>

\* lines 37-55: get reads the clock, calls the update function when no value
\* is stored or the deadline is reached, stores what it returns (the next
\* counter value and a deadline) and returns the stored value
UpdaterGet ==
    /\ Len(calls) < MaxGets
    /\ \E d \in Elapsed, life \in UpdateLifetimes :
          LET t == now + d
              needs_refresh == ~token_state.value.some \/ t >= token_state.deadline
              updated == [value |-> Some(idp_issued + 1), deadline |-> t + life]
              inner == IF needs_refresh THEN updated ELSE token_state
          IN  /\ now' = t
              /\ token_state' = inner
              /\ idp_issued' = IF needs_refresh THEN idp_issued + 1 ELSE idp_issued
              /\ calls' = Append(calls,
                     [at |-> t, before |-> token_state,
                      needs_refresh |-> needs_refresh,
                      updates |-> idp_issued' - idp_issued,
                      value |-> IF inner.value.some THEN Ok(inner.value.v)
                                ELSE Err(<<"No value after update">>),
                      after |-> inner])
    /\ UNCHANGED <<ticks, pc, idp_round_trips, chainVars>>

SpecUpdater == UpdaterInit /\ [][UpdaterGet]_vars

\* what the first sentence of the claim says of the get call with record c
GetUpdatesWhenDue(c) ==
    IF ~c.before.value.some \/ c.at >= c.before.deadline
    THEN /\ c.updates = 1
         /\ c.after.value.some
         /\ c.value = Ok(c.after.value.v)
         /\ c.after # c.before
    ELSE /\ c.updates = 0
         /\ c.after = c.before
         /\ c.value = Ok(c.before.value.v)

\* the first get updates, and a get made when the deadline is reached returns
\* the value after the one stored
FirstAndLateGets ==
    /\ calls # <<>> => calls[1].updates = 1 /\ calls[1].value = Ok(1)
    /\ \A k \in 2..Len(calls) :
          calls[k].at >= calls[k].before.deadline =>
             calls[k].value = Ok(calls[k - 1].value.v + 1)

\* C38: get invokes the update function exactly once when no value is cached
\* or now >= deadline, storing the value and deadline it returns, and not at
\* all otherwise, returning the cached value; so the first get after
\* construction updates, an immediate second get returns the same value, and a
\* get after the deadline returns the next value
C38_GetUpdatesOnlyWhenDue ==
    /\ \A k \in 1..Len(calls) : GetUpdatesWhenDue(calls[k])
    /\ FirstAndLateGets
    /\ (Len(calls) >= 2 /\ calls[2].at = calls[1].at) =>
          calls[2].value = calls[1].value

\* C38 as the code has it: the immediate second get returns the same value
\* when the deadline the first update returned lies after that moment; when
\* the update function returned a deadline that is already reached, the second
\* get updates again and returns the next value
C38_GetUpdatesOnlyWhenDueDeadlineAhead ==
    /\ \A k \in 1..Len(calls) : GetUpdatesWhenDue(calls[k])
    /\ FirstAndLateGets
    /\ (Len(calls) >= 2 /\ calls[2].at = calls[1].at) =>
          IF calls[1].after.deadline > calls[2].at
          THEN calls[2].value = calls[1].value /\ calls[2].updates = 0
          ELSE calls[2].value = Ok(2) /\ calls[2].updates = 1

\* the run of test_updater: the first get returned 1, an immediate second get
\* returned the cached 1, and a get three seconds later, after the deadline of
\* two seconds, returned 2
C38_Witness ==
    /\ Len(calls) = 3
    /\ calls[1].value = Ok(1)
    /\ calls[1].after.deadline = calls[1].at + 2
    /\ calls[2].at = calls[1].at
    /\ calls[2].value = Ok(1) /\ calls[2].updates = 0
    /\ calls[3].at = calls[2].at + 3
    /\ calls[3].value = Ok(2) /\ calls[3].updates = 1

\* ------------------------------------------- the delete tool's totals

\* the counts of the tasks in the order p, as ThreadResult values
CountsInOrder(p) ==
    [k \in 1..Len(iterations) |->
        [successful_count |-> iterations[p[k]].successful_count,
         failed_count |-> iterations[p[k]].failed_count]]

\* C39: under every interleaving of the tasks, once all of them have finished
\* and the tool has added up, total_successful + total_failed is the number of
\* contract ids processed, the result list holds the counts of each task
\* exactly once (in the order the tasks finished), and the tool ends with an
\* error exactly when total_failed > 0; while tasks are still running the list
\* holds one entry per finished task
C39_TotalsCoverEveryId ==
    /\ pc = "delete_join" =>
          Len(results) = Cardinality({w \in 1..Len(iterations) : iterations[w].done})
    /\ (pc \in {"exit_ok", "exit_err"} /\ pending.some) =>
          /\ \A w \in 1..Len(iterations) : iterations[w].done
          /\ successful_count + failed_count = Len(pending.v)
          /\ \E p \in [1..Len(iterations) -> 1..Len(iterations)] :
                /\ \A i, j \in 1..Len(iterations) : i # j => p[i] # p[j]
                /\ results = CountsInOrder(p)
          /\ \A w \in 1..Len(iterations) :
                iterations[w].successful_count + iterations[w].failed_count
                   = Len(iterations[w].contract_ids)
    /\ pc \in {"exit_ok", "exit_err"} => (pc = "exit_err" <=> failed_count > 0)

\* two tasks shared 51 ids, the second finished first, one had a failed batch
\* and the other none, and the tool ended with an error
C39_Witness ==
    /\ pc = "exit_err"
    /\ Len(params.transfer_contract_ids) = ManyContracts
    /\ Len(iterations) = 2
    /\ iterations[1].failed_count = 0
    /\ iterations[2].failed_count > 0
    /\ results[1].failed_count > 0
    /\ successful_count > 0

====
